---- MODULE Spec2Model ----
(***************************************************************************)
(* Pair-trade engine (src/src/pairtrade.rs): the per-pair state machine,   *)
(* the two-leg order coordinator and the position reconciler, modelled as  *)
(* state machines over a nondeterministic venue connector.                 *)
(*                                                                         *)
(* Sizes are naturals counted in lots; an Option<T> is the set {} (None)   *)
(* or {x} (Some(x)); an optional number is None (-1) or the number.        *)
(* Instants are readings of the model clock `now`.                         *)
(***************************************************************************)
EXTENDS Integers, Sequences, FiniteSets, TLC

----------------------------------------------------------------------------
(* Bounds of the model *)

\* last clock reading at which a new tick may start
MaxTime == 1
\* largest reported fill of one order, in lots
MaxFill == 2
\* largest target size of a drawn pending leg
MaxTarget == 3

----------------------------------------------------------------------------
(* Program constants and configuration *)

None == 0 - 1

MAX_EXIT_RETRIES == 3
\* cfg.max_active_pairs as set by test_instance
max_active_pairs == 1
\* cfg.entry_partial_fill_max_retries, the default
entry_partial_fill_max_retries == 3
\* cfg.order_timeout_secs, in clock units (one tick is one unit)
order_timeout_secs == 2
\* max_retries of the entry-timeout hedge loop
hedge_max_retries == 3
\* WARN_INTERVAL of should_log_position_warn (300 s), in clock units
WARN_INTERVAL == 15
\* UNHEDGED_CLOSE_COOLDOWN_SECS (30 s), in clock units
UNHEDGED_CLOSE_COOLDOWN_SECS == 2
\* cfg.cooldown_secs (30 s), in clock units
cooldown_secs == 2
POST_ONLY_ENTRY_ATTEMPTS == 3
\* leg_notional of hedged_sizes, in lots at price 1
leg_notional == 2
POST_ONLY_EXIT_ATTEMPTS == 3

Symbols == {"A", "B", "C", "D"}

\* cfg.universe
universe ==
    << [base |-> "A", quote |-> "B"],
       [base |-> "C", quote |-> "D"],
       [base |-> "A", quote |-> "D"] >>

Pairs == 1..Len(universe)

Long == "Long"
Short == "Short"
LongSpread == "LongSpread"
ShortSpread == "ShortSpread"

IsSome(o) == o # {}
Unwrap(o) == CHOOSE x \in o : TRUE

Max(a, b) == IF a >= b THEN a ELSE b
Min(a, b) == IF a <= b THEN a ELSE b

\* ceil(a / b) for a >= 0, b > 0
CeilDiv(a, b) == (a + b - 1) \div b

OppositeSide(side) == IF side = Long THEN Short ELSE Long

----------------------------------------------------------------------------
(* Size quantization *)

\* quantize_size_by_step without the min_order floor
quantize_size_by_step_no_min(size, step, min_order) ==
    IF step <= 0 THEN size
    ELSE LET multiples == size \div step
         IN  (IF multiples >= 1 THEN multiples ELSE 1) * step

\* quantize_size_by_step: round down to a multiple of step, floored at
\* ceil(min_order / step) steps and at one step
quantize_size_by_step(size, step, min_order) ==
    IF step <= 0 THEN size
    ELSE LET multiples0 == size \div step
             multiples  == IF min_order # None /\ min_order > 0
                              /\ CeilDiv(min_order, step) > multiples0
                           THEN CeilDiv(min_order, step)
                           ELSE multiples0
             multiplier == IF multiples >= 1 THEN multiples ELSE 1
         IN  multiplier * step

\* quantize_size_by_step_ceiling: round up to a multiple of step; the final
\* round_dp(step.scale(), ToZero) leaves a multiple of step unchanged
quantize_size_by_step_ceiling(size, step, min_order) ==
    IF step <= 0 THEN size
    ELSE LET multiples0 == CeilDiv(size, step)
             multiples  == IF min_order # None /\ min_order > 0
                              /\ CeilDiv(min_order, step) > multiples0
                           THEN CeilDiv(min_order, step)
                           ELSE multiples0
             multiplier == IF multiples >= 1 THEN multiples ELSE 1
         IN  multiplier * step

\* A SymbolSnapshot keeps price, min_order and the size step 10^-size_decimals
\* (size_step); prices maps a symbol to {} or {snapshot}.
EntrySizeStep(snapshot) ==
    IF snapshot.min_order # None THEN snapshot.min_order ELSE snapshot.size_step

CloseSizeStep(snapshot) ==
    IF snapshot.size_step # None THEN snapshot.size_step ELSE snapshot.min_order

quantize_order_size(symbol, size, prices) ==
    IF size <= 0 THEN size
    ELSE IF ~IsSome(prices[symbol]) THEN size
    ELSE LET snapshot == Unwrap(prices[symbol])
             step == EntrySizeStep(snapshot)
         IN  IF step = None THEN size
             ELSE LET quantized == quantize_size_by_step(size, step, snapshot.min_order)
                  IN  IF quantized > 0 THEN quantized ELSE size

\* an entry size that is rounded down like a reissued residual
quantize_order_size_exit_floor(symbol, size, prices) ==
    quantize_order_size(symbol, size, prices)

quantize_order_size_exit(symbol, size, prices) ==
    IF size <= 0 THEN size
    ELSE IF ~IsSome(prices[symbol]) THEN size
    ELSE LET snapshot == Unwrap(prices[symbol])
             step == EntrySizeStep(snapshot)
         IN  IF step = None THEN size
             ELSE LET quantized ==
                          quantize_size_by_step_ceiling(size, step, snapshot.min_order)
                  IN  IF quantized > 0 THEN quantized ELSE size

quantize_order_size_close(symbol, size, prices) ==
    IF size <= 0 THEN size
    ELSE IF ~IsSome(prices[symbol]) THEN size
    ELSE LET snapshot == Unwrap(prices[symbol])
             step == CloseSizeStep(snapshot)
         IN  IF step = None THEN size
             ELSE LET quantized == quantize_size_by_step_ceiling(size, step, None)
                  IN  IF quantized > 0 THEN quantized ELSE size

\* limit_price_for: Some(price) exactly when the price map holds the symbol
limit_price_for(symbol, prices) == IsSome(prices[symbol])

\* round_price_by_tick without the floor at one step
round_price_by_tick_no_minimum(price, step, side) ==
    IF step <= 0 THEN price
    ELSE (IF side = Long THEN price \div step ELSE CeilDiv(price, step)) * step

\* round_price_by_tick: a long price rounds toward negative infinity and a
\* short price toward positive infinity, to a multiple of step and to one
\* step at least; the final round_dp(step.scale(), ToZero) leaves a
\* multiple of step unchanged
round_price_by_tick(price, step, side) ==
    IF step <= 0 THEN price
    ELSE LET rounded    == IF side = Long THEN price \div step
                           ELSE CeilDiv(price, step)
             multiples  == IF rounded < 1 THEN 1 ELSE rounded
         IN  multiples * step

----------------------------------------------------------------------------
(* Connector calls.  A call record is what the engine hands to the venue;  *)
(* src names the function that made the call and key the pair it worked    *)
(* for (0 when the call is not made for one pair).  result is the venue's  *)
(* answer to the call ("-" where the engine does not branch on it) and     *)
(* shown the filled size a fill query shows for the order it is about.     *)

Call(op, src, key, symbol, size, side, limit, reduce_only) ==
    [op |-> op, src |-> src, key |-> key, symbol |-> symbol, size |-> size,
     side |-> side, limit |-> limit, reduce_only |-> reduce_only,
     result |-> "-", shown |-> 0]

Answered(call, result) == [call EXCEPT !.result = result]

CreateOrder(src, key, symbol, size, side, limit, reduce_only) ==
    Call("create_order", src, key, symbol, size, side, limit, reduce_only)

Query(op, src, key, symbol) == Call(op, src, key, symbol, 0, "-", FALSE, FALSE)

\* The venue hands out order ids; the engine only compares them, so the model
\* takes the least id that is not tracked.
FreshId(used) ==
    CHOOSE n \in 1..(Cardinality(used) + 1) :
        n \notin used /\ \A m \in 1..(n - 1) : m \in used

----------------------------------------------------------------------------
(* Pending orders *)

PendingLeg(symbol, order_id, target, filled, side) ==
    [symbol |-> symbol, order_id |-> order_id, target |-> target,
     filled |-> filled, side |-> side]

PendingOrders(legs, direction, placed_at, hedge_retry_count) ==
    [legs |-> legs, direction |-> direction, placed_at |-> placed_at,
     hedge_retry_count |-> hedge_retry_count]

LegIds(legs) == {legs[i].order_id : i \in 1..Len(legs)}

\* fills: order id -> summed reported fill (PendingStatus.fills); an id
\* without a record is not in the domain
leg_fill_from_map(leg, fills) ==
    IF leg.order_id \in DOMAIN fills THEN fills[leg.order_id] ELSE 0

\* update_pending_fills that overwrites the recorded fill with the reported one
update_pending_fills_overwrite(pending, fills) ==
    [pending EXCEPT !.legs =
        [i \in 1..Len(pending.legs) |->
            [pending.legs[i] EXCEPT
                !.filled = Min(leg_fill_from_map(pending.legs[i], fills),
                               pending.legs[i].target)]]]

update_pending_fills(pending, fills) ==
    [pending EXCEPT !.legs =
        [i \in 1..Len(pending.legs) |->
            LET leg == pending.legs[i]
                filled == leg_fill_from_map(leg, fills)
            IN  IF filled > leg.filled
                THEN [leg EXCEPT !.filled = Min(filled, leg.target)]
                ELSE leg]]

filled_for_leg(leg, fills) ==
    Min(Max(leg_fill_from_map(leg, fills), leg.filled), leg.target)

\* HashMap keyed by order id: a later leg with the same id overwrites
filled_by_leg(pending, fills) ==
    [id \in LegIds(pending.legs) |->
        LET last == CHOOSE i \in 1..Len(pending.legs) :
                        /\ pending.legs[i].order_id = id
                        /\ \A j \in (i + 1)..Len(pending.legs) :
                               pending.legs[j].order_id # id
        IN  filled_for_leg(pending.legs[last], fills)]

\* all_filled that is content with one filled leg
all_filled_some_leg(pending, fills) ==
    \E i \in 1..Len(pending.legs) :
        filled_for_leg(pending.legs[i], fills) >= pending.legs[i].target

all_filled(pending, fills) ==
    \A i \in 1..Len(pending.legs) :
        filled_for_leg(pending.legs[i], fills) >= pending.legs[i].target

\* any_filled that never sees a fill
any_filled_never(filled_qtys) == FALSE

any_filled(filled_qtys) == \E id \in DOMAIN filled_qtys : filled_qtys[id] > 0

----------------------------------------------------------------------------
(* Reduce-only "position is missing" confirmation *)

\* open_positions: symbol -> {} or {[sign, size]}.  answer is what the
\* get_positions query made by the confirmation shows for the symbol:
\* "none", "has" or "err" (the query failed).
cached_has_position(symbol, open_positions) ==
    /\ IsSome(open_positions[symbol])
    /\ Unwrap(open_positions[symbol]).sign # 0
    /\ Unwrap(open_positions[symbol]).size > 0

\* a confirmation that queries the venue whatever the cache shows
confirm_queries_always(symbol, open_positions, positions_ready) == TRUE

confirm_queries(symbol, open_positions, positions_ready) ==
    ~(~cached_has_position(symbol, open_positions) /\ positions_ready)

confirm_reduce_only_position_missing_never(symbol, open_positions, positions_ready, answer) ==
    [confirmed |-> FALSE, open_positions |-> open_positions]

confirm_reduce_only_position_missing(symbol, open_positions, positions_ready, answer) ==
    IF ~confirm_queries(symbol, open_positions, positions_ready)
    THEN [confirmed |-> TRUE, open_positions |-> open_positions]
    ELSE IF answer = "none"
    THEN [confirmed |-> TRUE,
          open_positions |-> [open_positions EXCEPT ![symbol] = {}]]
    ELSE [confirmed |-> FALSE, open_positions |-> open_positions]

----------------------------------------------------------------------------
(* reissue_partial_legs *)

\* Venue answers to one create_order: accepted, rejected with "position is
\* missing for reduce-only order" (followed by what a get_positions query
\* then shows for the symbol), or rejected otherwise.
VenueLegResp ==
    {[create |-> "ok", answer |-> "none"], [create |-> "err", answer |-> "none"]}
    \cup {[create |-> "missing", answer |-> a] : a \in {"none", "has", "err"}}

is_reduce_only_position_missing_error(resp) == resp.create = "missing"

has_price(symbol, price_map) ==
    IsSome(price_map[symbol]) /\ Unwrap(price_map[symbol]).price > 0

\* fill of a leg as reissue_partial_legs reads it from filled_qtys
reissue_filled(leg, filled_qtys) ==
    Min(Max(IF leg.order_id \in DOMAIN filled_qtys
            THEN filled_qtys[leg.order_id] ELSE 0, leg.filled), leg.target)

reissue_quantized_size(leg, remaining, price_map, reduce_only) ==
    IF reduce_only
    THEN quantize_order_size_close(leg.symbol, remaining, price_map)
    ELSE quantize_order_size(leg.symbol, remaining, price_map)

\* a reissue that does not look at the price map
reissue_orders_any_price(leg, filled_qtys, price_map, reduce_only, use_market) ==
    /\ Max(leg.target - reissue_filled(leg, filled_qtys), 0) > 0
    /\ reissue_quantized_size(leg, Max(leg.target - reissue_filled(leg, filled_qtys), 0),
                              price_map, reduce_only) > 0

\* TRUE when the loop body reaches create_order for the leg
reissue_orders(leg, filled_qtys, price_map, reduce_only, use_market) ==
    LET filled == reissue_filled(leg, filled_qtys)
        remaining == Max(leg.target - filled, 0)
    IN  /\ remaining > 0
        /\ use_market \/ has_price(leg.symbol, price_map)
        /\ reissue_quantized_size(leg, remaining, price_map, reduce_only) > 0
        /\ use_market \/ limit_price_for(leg.symbol, price_map)

\* the legs pushed when the residual order was accepted
reissued_legs_no_accounting(leg, filled, quantized_size, new_id) ==
    << PendingLeg(leg.symbol, new_id, quantized_size, 0, leg.side) >>

reissued_legs(leg, filled, quantized_size, new_id) ==
    (IF filled > 0
     THEN << PendingLeg(leg.symbol, leg.order_id, filled, filled, leg.side) >>
     ELSE << >>)
    \o << PendingLeg(leg.symbol, new_id, quantized_size, 0, leg.side) >>

\* env: [key, venue (leg index -> VenueLegResp), used (tracked order ids),
\*       open_positions, positions_ready, now]
\* acc: [new_legs, calls, open_positions, used]
RECURSIVE reissue_loop(_, _, _, _, _, _, _, _)
reissue_loop(i, pending, filled_qtys, price_map, reduce_only, use_market, env, acc) ==
    IF i > Len(pending.legs) THEN acc
    ELSE
    LET leg == pending.legs[i]
        filled == reissue_filled(leg, filled_qtys)
        remaining == Max(leg.target - filled, 0)
        kept == [leg EXCEPT !.filled = filled]
        limit == ~use_market
        resp == env.venue[i]
        new_id == FreshId(acc.used)
        asks == confirm_queries(leg.symbol, acc.open_positions, env.positions_ready)
        \* the outcome of create_order(symbol, quantized_size, ...)
        created(quantized_size, order, confirm) ==
            IF resp.create = "ok"
            THEN [acc EXCEPT
                    !.new_legs = @ \o reissued_legs(leg, filled, quantized_size, new_id),
                    !.calls = Append(@, Answered(order, resp.create)),
                    !.used = @ \cup {new_id}]
            ELSE IF reduce_only /\ is_reduce_only_position_missing_error(resp)
            THEN [acc EXCEPT
                    !.new_legs = Append(@, IF confirm.confirmed
                                           THEN [leg EXCEPT !.filled = leg.target]
                                           ELSE kept),
                    !.calls = @ \o << Answered(order, resp.create) >> \o
                        (IF asks
                         THEN << Answered(Query("get_positions",
                                     "confirm_reduce_only_position_missing",
                                     env.key, leg.symbol), resp.answer) >>
                         ELSE << >>),
                    !.open_positions = confirm.open_positions]
            ELSE [acc EXCEPT !.new_legs = Append(@, kept),
                             !.calls = Append(@, Answered(order, resp.create))]
        sized(quantized_size) ==
            created(quantized_size,
                    CreateOrder("reissue_partial_legs", env.key, leg.symbol,
                                quantized_size, leg.side, limit, reduce_only),
                    confirm_reduce_only_position_missing(
                        leg.symbol, acc.open_positions, env.positions_ready,
                        resp.answer))
        next ==
            IF ~reissue_orders(leg, filled_qtys, price_map, reduce_only, use_market)
            THEN [acc EXCEPT !.new_legs = Append(@, kept)]
            ELSE sized(reissue_quantized_size(leg, remaining, price_map, reduce_only))
    IN  reissue_loop(i + 1, pending, filled_qtys, price_map, reduce_only,
                     use_market, env, next)

\* reissue_partial_legs that reissues every leg as an entry leg
reissue_partial_legs_not_reduce_only(pending, filled_qtys, price_map, reduce_only, use_market, retry_count, env) ==
    LET result(acc) ==
            [pending |-> IF acc.new_legs = << >> THEN {}
                         ELSE {PendingOrders(acc.new_legs, pending.direction,
                                             env.now, retry_count)},
             calls |-> acc.calls,
             open_positions |-> acc.open_positions,
             used |-> acc.used]
    IN  result(reissue_loop(1, pending, filled_qtys, price_map, FALSE,
                            use_market, env,
                            [new_legs |-> << >>, calls |-> << >>,
                             open_positions |-> env.open_positions,
                             used |-> env.used]))

\* result: [pending (Option<PendingOrders>), calls, open_positions, used]
reissue_partial_legs(pending, filled_qtys, price_map, reduce_only, use_market, retry_count, env) ==
    LET result(acc) ==
            [pending |-> IF acc.new_legs = << >> THEN {}
                         ELSE {PendingOrders(acc.new_legs, pending.direction,
                                             env.now, retry_count)},
             calls |-> acc.calls,
             open_positions |-> acc.open_positions,
             used |-> acc.used]
    IN  result(reissue_loop(1, pending, filled_qtys, price_map, reduce_only,
                            use_market, env,
                            [new_legs |-> << >>, calls |-> << >>,
                             open_positions |-> env.open_positions,
                             used |-> env.used]))

\* the venue answers worth drawing for a reissue: one per leg that reaches
\* create_order, the others fixed
ReissueVenues(pending, filled_qtys, price_map, reduce_only, use_market) ==
    {v \in [1..Len(pending.legs) -> VenueLegResp] :
        \A i \in 1..Len(pending.legs) :
            \/ /\ reissue_orders(pending.legs[i], filled_qtys, price_map,
                                 reduce_only, use_market)
               /\ v[i].create = "missing" => reduce_only
            \/ v[i] = [create |-> "ok", answer |-> "none"]}

----------------------------------------------------------------------------
(* Engine state *)

Position(direction, entry_size_a, entry_size_b) ==
    [direction |-> direction, entry_size_a |-> entry_size_a,
     entry_size_b |-> entry_size_b]

\* PairState::new; the statistics of a pair are inputs of the model
NewPairState ==
    [position |-> {}, pending_entry |-> {}, pending_exit |-> {},
     position_guard |-> FALSE, last_exit_at |-> None]

PairKey(k) == universe[k]

has_pending_never(state) == FALSE

has_pending_exit_only(state) == IsSome(state.pending_exit)

has_pending(state) == IsSome(state.pending_entry) \/ IsSome(state.pending_exit)

\* is_active of step: the pair takes part in the symbol-overlap filter
is_active(state) ==
    \/ IsSome(state.position)
    \/ IsSome(state.pending_entry)
    \/ IsSome(state.pending_exit)
    \/ state.position_guard

\* order ids tracked by any pending slot
TrackedIds(sts) ==
    UNION {LegIds(Unwrap(sts[k].pending_entry).legs) :
               k \in {j \in Pairs : IsSome(sts[j].pending_entry)}}
    \cup
    UNION {LegIds(Unwrap(sts[k].pending_exit).legs) :
               k \in {j \in Pairs : IsSome(sts[j].pending_exit)}}

elapsed(at, now_) == now_ - at

\* a warning is due whenever it is asked for
should_log_position_warn_always(last_warn, key, now_) == TRUE

\* should_log_position_warn: at most one warning per WARN_INTERVAL and key
should_log_position_warn(last_warn, key, now_) ==
    last_warn[key] = None \/ elapsed(last_warn[key], now_) >= WARN_INTERVAL

----------------------------------------------------------------------------
(* Position reconciler *)

PositionSnapshot(sign, size) == [sign |-> sign, size |-> size]

\* is_dust_position: below the symbol's min_order
is_dust_position(symbol, snapshot, prices) ==
    /\ IsSome(prices[symbol])
    /\ Unwrap(prices[symbol]).min_order # None
    /\ snapshot.size < Unwrap(prices[symbol]).min_order

\* the dust-filtered snapshots of one get_positions answer
\* (positions: symbol -> {} or {PositionSnapshot})
filter_snapshots(positions, prices) ==
    [s \in Symbols |->
        IF /\ IsSome(positions[s])
           /\ Unwrap(positions[s]).sign # 0
           /\ Unwrap(positions[s]).size > 0
           /\ ~is_dust_position(s, Unwrap(positions[s]), prices)
        THEN positions[s] ELSE {}]

\* no pending slot is ever stale
clear_stale_pending_never(sts, max_age, now_) == sts

\* clear_stale_pending
clear_stale_pending(sts, max_age, now_) ==
    [k \in Pairs |->
        LET state == sts[k]
            entry_age == IF IsSome(state.pending_entry)
                         THEN elapsed(Unwrap(state.pending_entry).placed_at, now_)
                         ELSE None
            exit_age == IF IsSome(state.pending_exit)
                        THEN elapsed(Unwrap(state.pending_exit).placed_at, now_)
                        ELSE None
            age == Max(entry_age, exit_age)
        IN  IF has_pending(state) /\ age >= max_age
            THEN [state EXCEPT !.pending_entry = {}, !.pending_exit = {},
                               !.position = {}, !.position_guard = FALSE,
                               !.last_exit_at = now_]
            ELSE state]

\* the two legs are on the same side of the market (or one is flat)
mismatched_legs_never(b, q) == FALSE

mismatched_legs(b, q) == b.sign * q.sign >= 0

\* the per-pair arm of sync_positions_from_exchange; log_warn is
\* should_log_position_warn(key) read before the arm.
\* result: [state, warned (last_position_warn[key] was set),
\*          closure ({} or {[symbol, sign, size]})]
sync_pair(k, state, snapshots, log_warn, unhedged_attempted) ==
    LET base == snapshots[PairKey(k).base]
        quote == snapshots[PairKey(k).quote]
        keep == [state |-> state, warned |-> FALSE, closure |-> {}]
    IN
    IF has_pending(state) THEN keep
    ELSE IF ~IsSome(base) /\ ~IsSome(quote)
    THEN [keep EXCEPT !.state = [state EXCEPT !.position = {},
                                              !.position_guard = FALSE]]
    ELSE IF IsSome(base) /\ IsSome(quote)
    THEN LET b == Unwrap(base)
             q == Unwrap(quote)
         IN  IF mismatched_legs(b, q)
             THEN [keep EXCEPT !.state = [state EXCEPT !.position = {},
                                                       !.position_guard = TRUE],
                               !.warned = log_warn]
             ELSE [keep EXCEPT !.state =
                       [state EXCEPT
                           !.position = {Position(IF b.sign > 0 THEN LongSpread
                                                  ELSE ShortSpread, b.size, q.size)},
                           !.position_guard = FALSE]]
    ELSE LET active_for_warn == IsSome(state.position) \/ has_pending(state)
             symbol == IF IsSome(base) THEN PairKey(k).base ELSE PairKey(k).quote
             snapshot == IF IsSome(base) THEN Unwrap(base) ELSE Unwrap(quote)
         IN  [state |-> [state EXCEPT
                            !.position_guard = log_warn /\ active_for_warn,
                            !.position = IF active_for_warn THEN @ ELSE {}],
              warned |-> log_warn /\ active_for_warn,
              closure |-> IF symbol \notin unhedged_attempted
                          THEN {[key |-> k, symbol |-> symbol,
                                 sign |-> snapshot.sign, size |-> snapshot.size]}
                          ELSE {}]

\* the loop of sync_positions_from_exchange over cfg.universe
\* acc: [states, last_position_warn, unhedged_attempted, unhedged_closures]
RECURSIVE sync_loop(_, _, _, _)
sync_loop(k, snapshots, now_, acc) ==
    IF k > Len(universe) THEN acc
    ELSE LET log_warn == should_log_position_warn(acc.last_position_warn, k, now_)
             next(r) ==
                 [states |-> [acc.states EXCEPT ![k] = r.state],
                  last_position_warn |->
                      IF r.warned THEN [acc.last_position_warn EXCEPT ![k] = now_]
                      ELSE acc.last_position_warn,
                  unhedged_attempted |->
                      acc.unhedged_attempted \cup {c.symbol : c \in r.closure},
                  unhedged_closures |->
                      acc.unhedged_closures \o
                      (IF r.closure = {} THEN << >> ELSE << Unwrap(r.closure) >>)]
         IN  sync_loop(k + 1, snapshots, now_,
                 next(sync_pair(k, acc.states[k], snapshots, log_warn,
                                acc.unhedged_attempted)))

\* try_close_unhedged_leg without the cooldown against last_exit_at
unhedged_close_orders_no_cooldown(c, sts, prices, cfg_, now_) ==
    /\ ~(cfg_.dry_run \/ cfg_.observe_only)
    /\ quantize_order_size_close(c.symbol, c.size, prices) > 0

\* try_close_unhedged_leg without the early return of dry_run / observe_only
unhedged_close_orders_live(c, sts, prices, cfg_, now_) ==
    /\ \/ sts[c.key].last_exit_at = None
       \/ elapsed(sts[c.key].last_exit_at, now_) >= UNHEDGED_CLOSE_COOLDOWN_SECS
    /\ quantize_order_size_close(c.symbol, c.size, prices) > 0

\* TRUE when try_close_unhedged_leg reaches create_order
unhedged_close_orders(c, sts, prices, cfg_, now_) ==
    /\ ~(cfg_.dry_run \/ cfg_.observe_only)
    /\ \/ sts[c.key].last_exit_at = None
       \/ elapsed(sts[c.key].last_exit_at, now_) >= UNHEDGED_CLOSE_COOLDOWN_SECS
    /\ quantize_order_size_close(c.symbol, c.size, prices) > 0

\* try_close_unhedged_leg for the closure c with the venue's answer resp
\* acc: [states, open_positions, calls]
try_close_unhedged_leg(c, resp, prices, positions_ready_, cfg_, now_, acc) ==
    IF ~unhedged_close_orders(c, acc.states, prices, cfg_, now_) THEN acc
    ELSE
    LET side == IF c.sign >= 0 THEN Short ELSE Long
        asks == confirm_queries(c.symbol, acc.open_positions, positions_ready_)
        exited == [acc.states EXCEPT ![c.key].last_exit_at = now_]
        \* the outcome of create_order(symbol, qty, side, None, None, true, None)
        created(order, confirm) ==
            IF resp.create = "ok"
            THEN [acc EXCEPT !.states = exited,
                             !.calls = Append(@, Answered(order, resp.create))]
            ELSE IF is_reduce_only_position_missing_error(resp)
            THEN [states |-> IF confirm.confirmed THEN exited ELSE acc.states,
                  open_positions |-> confirm.open_positions,
                  calls |-> acc.calls \o << Answered(order, resp.create) >> \o
                      (IF asks
                       THEN << Answered(Query("get_positions",
                                   "confirm_reduce_only_position_missing",
                                   c.key, c.symbol), resp.answer) >>
                       ELSE << >>)]
            ELSE [acc EXCEPT !.calls = Append(@, Answered(order, resp.create))]
    IN  created(CreateOrder("try_close_unhedged_leg", c.key, c.symbol,
                            quantize_order_size_close(c.symbol, c.size, prices),
                            side, FALSE, TRUE),
                confirm_reduce_only_position_missing(
                    c.symbol, acc.open_positions, positions_ready_, resp.answer))

RECURSIVE close_unhedged_loop(_, _, _, _, _, _, _, _)
close_unhedged_loop(i, closures, venue, prices, positions_ready_, cfg_, now_, acc) ==
    IF i > Len(closures) THEN acc
    ELSE close_unhedged_loop(i + 1, closures, venue, prices, positions_ready_,
             cfg_, now_,
             try_close_unhedged_leg(closures[i], venue[i], prices,
                                    positions_ready_, cfg_, now_, acc))

\* sync_positions_from_exchange.  answer is the get_positions result:
\* [kind |-> "ok", positions |-> ...], [kind |-> "not_ready"] or
\* [kind |-> "err"]; venue[i] answers the order of the i-th lone-leg closure.
\* eng: [states, open_positions, positions_ready, last_position_warn]
sync_begin(eng, answer, prices, now_) ==
    LET snapshots == filter_snapshots(answer.positions, prices)
    IN  sync_loop(1, snapshots, now_,
            [states |-> eng.states,
             last_position_warn |-> eng.last_position_warn,
             unhedged_attempted |-> {},
             unhedged_closures |-> << >>])

sync_positions_from_exchange(eng, answer, venue, prices, cfg_, now_) ==
    LET get == Query("get_positions", "sync_positions_from_exchange", 0, "-")
    IN
    IF answer.kind = "not_ready"
    THEN [states |-> clear_stale_pending(eng.states, 6 * Max(order_timeout_secs, 1), now_),
          open_positions |-> eng.open_positions,
          positions_ready |-> FALSE,
          last_position_warn |-> eng.last_position_warn,
          calls |-> << get >>]
    ELSE IF answer.kind = "err"
    THEN [states |-> eng.states,
          open_positions |-> eng.open_positions,
          positions_ready |-> eng.positions_ready,
          last_position_warn |-> eng.last_position_warn,
          calls |-> << get >>]
    ELSE
    LET snapshots == filter_snapshots(answer.positions, prices)
        result(looped, closed) ==
            [states |-> closed.states,
             open_positions |-> closed.open_positions,
             positions_ready |-> TRUE,
             last_position_warn |-> looped.last_position_warn,
             calls |-> closed.calls]
        closing(looped) ==
            result(looped,
                   close_unhedged_loop(1, looped.unhedged_closures, venue, prices,
                       TRUE, cfg_, now_,
                       [states |-> looped.states,
                        open_positions |-> snapshots,
                        calls |-> << get >>]))
    IN  closing(sync_begin(eng, answer, prices, now_))

----------------------------------------------------------------------------
(* Pending order reconciler *)

\* the symbols of the legs, each once (the keys of the per-symbol maps)
RECURSIVE LegSymbols(_)
LegSymbols(legs) ==
    IF legs = << >> THEN << >>
    ELSE LET rest == LegSymbols(Tail(legs))
         IN  << Head(legs).symbol >> \o
             SelectSeq(rest, LAMBDA sym : sym # Head(legs).symbol)

\* the `+=` of pending_status over the fill records of one order id
RECURSIVE SumFills(_, _)
SumFills(records, id) ==
    IF records = << >> THEN 0
    ELSE (IF Head(records).order_id = id THEN Head(records).filled_size ELSE 0)
         + SumFills(Tail(records), id)

\* pending_status.  answer: [kind, open (ids the venue lists as open),
\* records (the venue's fill records, [order_id, filled_size])]
pending_status(pending, answer) ==
    LET ids == LegIds(pending.legs)
        seen == {answer.records[i].order_id : i \in 1..Len(answer.records)} \cap ids
    IN  [open_remaining |-> Cardinality(answer.open \cap ids),
         fills |-> [id \in seen |-> SumFills(answer.records, id)],
         open_ids |-> answer.open \cap ids]

pending_status_calls(pending, key, answer) ==
    LET syms == LegSymbols(pending.legs)
        ids(sym) == {pending.legs[i].order_id :
                        i \in {j \in 1..Len(pending.legs) : pending.legs[j].symbol = sym}}
        shown(sym) == IF \E id \in ids(sym) : SumFills(answer.records, id) > 0
                      THEN SumFills(answer.records,
                               CHOOSE id \in ids(sym) :
                                   /\ SumFills(answer.records, id) > 0
                                   /\ \A other \in ids(sym) :
                                          SumFills(answer.records, other) > 0
                                              => id <= other)
                      ELSE 0
        both(sym) == << Query("get_open_orders", "pending_status", key, sym),
                        [Query("get_filled_orders", "pending_status", key, sym)
                            EXCEPT !.shown = shown(sym)] >>
    IN  IF syms = << >> THEN << >>
        ELSE IF answer.kind = "err" THEN << both(syms[1])[1] >>
        ELSE IF Len(syms) = 1 THEN both(syms[1])
        ELSE both(syms[1]) \o both(syms[2])

\* cancel_pending_orders: one cancel_orders per symbol, errors ignored
cancel_pending_orders(pending, key) ==
    LET syms == LegSymbols(pending.legs)
    IN  [i \in 1..Len(syms) |->
            Query("cancel_orders", "cancel_pending_orders", key, syms[i])]

\* force_close_all_positions that never reaches the connector
force_close_all_positions_skipped(key, cfg_) == << >>

\* force_close_all_positions
force_close_all_positions(key, cfg_) ==
    IF cfg_.dry_run \/ cfg_.observe_only THEN << >>
    ELSE << Query("close_all_positions", "force_close_all_positions", key, "-") >>

\* the hedge loop of the entry timeout branch
\* acc: [flattened_any, hedge_failed, calls]
RECURSIVE entry_hedge_loop(_, _, _, _, _, _)
entry_hedge_loop(i, pending, filled_qtys, prices, env, acc) ==
    IF i > Len(pending.legs) THEN acc
    ELSE
    LET leg == pending.legs[i]
        filled == IF leg.order_id \in DOMAIN filled_qtys
                  THEN filled_qtys[leg.order_id] ELSE 0
        use_market == pending.hedge_retry_count + 1 >= hedge_max_retries
        limit == IF use_market THEN FALSE ELSE limit_price_for(leg.symbol, prices)
        order == CreateOrder("reconcile_pending_orders", env.key, leg.symbol,
                             filled, OppositeSide(leg.side), limit, TRUE)
        next ==
            IF filled <= 0 THEN acc
            ELSE IF ~IsSome(prices[leg.symbol]) \/ (~use_market /\ ~limit)
            THEN [acc EXCEPT !.hedge_failed = TRUE]
            ELSE IF env.venue[i].create = "ok"
            THEN [acc EXCEPT !.flattened_any = TRUE,
                             !.calls = Append(@, Answered(order, "ok"))]
            ELSE [acc EXCEPT !.hedge_failed = TRUE,
                             !.calls = Append(@, Answered(order, env.venue[i].create))]
    IN  entry_hedge_loop(i + 1, pending, filled_qtys, prices, env, next)

\* TRUE when the exit retry loop reaches create_order for the leg
exit_retry_orders(leg, filled_qtys, prices) ==
    LET filled == IF leg.order_id \in DOMAIN filled_qtys
                  THEN filled_qtys[leg.order_id] ELSE 0
        remaining_qty == Max(leg.target - filled, 0)
    IN  /\ remaining_qty > 0
        /\ quantize_order_size_exit(leg.symbol, remaining_qty, prices) > 0

\* the loop of the exit timeout branch that re-creates the missing legs
\* acc: [new_legs, calls, used]
RECURSIVE exit_retry_loop(_, _, _, _, _, _)
exit_retry_loop(i, pending, filled_qtys, prices, env, acc) ==
    IF i > Len(pending.legs) THEN acc
    ELSE
    LET leg == pending.legs[i]
        filled == IF leg.order_id \in DOMAIN filled_qtys
                  THEN filled_qtys[leg.order_id] ELSE 0
        remaining_qty == Max(leg.target - filled, 0)
        quantized == quantize_order_size_exit(leg.symbol, remaining_qty, prices)
        order == CreateOrder("reconcile_pending_orders", env.key, leg.symbol,
                             quantized, leg.side, FALSE, TRUE)
        new_id == FreshId(acc.used)
        next ==
            IF ~exit_retry_orders(leg, filled_qtys, prices) THEN acc
            ELSE IF env.venue[i].create = "ok"
            THEN [new_legs |-> Append(acc.new_legs,
                                   PendingLeg(leg.symbol, new_id, quantized, 0, leg.side)),
                  calls |-> Append(acc.calls, Answered(order, "ok")),
                  used |-> acc.used \cup {new_id}]
            ELSE [acc EXCEPT !.calls = Append(@, Answered(order, env.venue[i].create))]
    IN  exit_retry_loop(i + 1, pending, filled_qtys, prices, env, next)

\* Result of a part of the reconciler:
\* [state, calls, open_positions, used, outcome], outcome "ok" (fell through),
\* "return" (return Ok(()) from the middle) or "err" (the `?` of a query)
Reconciled(state, calls, open_positions, used, outcome) ==
    [state |-> state, calls |-> calls, open_positions |-> open_positions,
     used |-> used, outcome |-> outcome]

\* use_market that turns to market orders past max_retries, 0 included
entry_use_market_past_limit(max_retries, next_retry) == next_retry > max_retries

\* use_market of the partial-fill branch of a pending entry: with
\* max_retries = 0 the residual is never sent as a market order
entry_use_market(max_retries, next_retry) ==
    max_retries > 0 /\ next_retry > max_retries

\* the pending_entry part of reconcile_pending_orders; state has both slots
\* taken, answer is the venue's order status, env.venue its order answers
reconcile_entry(state, pending0, answer, prices, cfg_, env) ==
    LET status == pending_status(pending0, answer)
        next_retry == pending0.hedge_retry_count + 1
        max_retries == cfg_.entry_partial_fill_max_retries
        use_market == entry_use_market(max_retries, next_retry)
        reissue_branch(queries, cancels, reissued) ==
            Reconciled([state EXCEPT !.pending_entry = reissued.pending],
                       queries \o cancels \o reissued.calls,
                       reissued.open_positions, reissued.used, "return")
        timeout_branch(pending, queries, stale_cancels, hedged) ==
            Reconciled(
                IF hedged.hedge_failed
                THEN [state EXCEPT !.pending_entry =
                         {[pending EXCEPT !.hedge_retry_count = @ + 1,
                                          !.placed_at = env.now]}]
                ELSE [state EXCEPT !.last_exit_at = env.now,
                                   !.pending_entry = {},
                                   !.position = IF hedged.flattened_any THEN {} ELSE @],
                queries \o stale_cancels \o hedged.calls,
                env.open_positions, env.used, "ok")
        branches(pending, filled_qtys, queries, cancels) ==
            IF answer.kind = "err"
            THEN Reconciled(state, queries, env.open_positions, env.used, "err")
            ELSE IF all_filled(pending, status.fills)
            THEN Reconciled([state EXCEPT
                                !.position = {Position(pending.direction, None, None)},
                                !.pending_entry = {}],
                            queries, env.open_positions, env.used, "ok")
            ELSE IF any_filled(filled_qtys)
            THEN reissue_branch(queries, cancels,
                     reissue_partial_legs(pending, filled_qtys, prices, FALSE,
                                          use_market, next_retry, env))
            ELSE IF elapsed(pending.placed_at, env.now) >= Max(order_timeout_secs, 1)
            THEN timeout_branch(pending, queries,
                     IF status.open_remaining > 0 THEN cancels ELSE << >>,
                     entry_hedge_loop(1, pending, filled_qtys, prices, env,
                         [flattened_any |-> FALSE, hedge_failed |-> FALSE,
                          calls |-> << >>]))
            ELSE Reconciled([state EXCEPT !.pending_entry = {pending}],
                            queries, env.open_positions, env.used, "ok")
        filled(pending) ==
            branches(pending, filled_by_leg(pending, status.fills),
                     pending_status_calls(pending0, env.key, answer),
                     cancel_pending_orders(pending, env.key))
    IN  filled(update_pending_fills(pending0, status.fills))

\* the pending_exit part of reconcile_pending_orders
reconcile_exit(state, pending0, answer, prices, cfg_, env) ==
    LET status == pending_status(pending0, answer)
        next_retry == pending0.hedge_retry_count + 1
        gave_up(queries) ==
            Reconciled([state EXCEPT !.pending_exit = {}],
                       queries \o force_close_all_positions(env.key, cfg_),
                       env.open_positions, env.used, "return")
        reissue_branch(queries, cancels, reissued) ==
            Reconciled([state EXCEPT !.pending_exit = reissued.pending],
                       queries \o cancels \o reissued.calls,
                       reissued.open_positions, reissued.used, "return")
        timeout_branch(pending, queries, stale_cancels, retried) ==
            Reconciled(
                [state EXCEPT !.pending_exit =
                    IF retried.new_legs = << >> THEN {}
                    ELSE {PendingOrders(retried.new_legs, pending.direction,
                                        env.now, next_retry)}],
                queries \o stale_cancels \o retried.calls,
                env.open_positions, retried.used, "ok")
        branches(pending, filled_qtys, queries, cancels) ==
            IF answer.kind = "err"
            THEN Reconciled(state, queries, env.open_positions, env.used, "err")
            ELSE IF status.open_remaining = 0 /\ all_filled(pending, status.fills)
            THEN Reconciled([state EXCEPT !.position = {},
                                          !.last_exit_at = env.now,
                                          !.pending_exit = {}],
                            queries, env.open_positions, env.used, "ok")
            ELSE IF any_filled(filled_qtys)
            THEN IF next_retry > MAX_EXIT_RETRIES THEN gave_up(queries)
                 ELSE reissue_branch(queries, cancels,
                          reissue_partial_legs(pending, filled_qtys, prices, TRUE,
                                               TRUE, next_retry, env))
            ELSE IF \/ elapsed(pending.placed_at, env.now) >= Max(order_timeout_secs, 1)
                    \/ status.open_remaining = 0
            THEN IF next_retry > MAX_EXIT_RETRIES THEN gave_up(queries)
                 ELSE timeout_branch(pending, queries,
                          IF status.open_remaining > 0 THEN cancels ELSE << >>,
                          exit_retry_loop(1, pending, filled_qtys, prices, env,
                              [new_legs |-> << >>, calls |-> << >>,
                               used |-> env.used]))
            ELSE Reconciled([state EXCEPT !.pending_exit = {pending}],
                            queries, env.open_positions, env.used, "ok")
        filled(pending) ==
            branches(pending, filled_by_leg(pending, status.fills),
                     pending_status_calls(pending0, env.key, answer),
                     cancel_pending_orders(pending, env.key))
    IN  filled(update_pending_fills(pending0, status.fills))

\* reconcile_pending_orders for the pair env.key.  in: [entry, exit] the
\* venue's order status for each slot, [venue_entry, venue_exit] its answers
\* to the orders each part sends.
reconcile_pending_orders(state, input, prices, cfg_, env) ==
    LET taken == [state EXCEPT !.pending_entry = {}, !.pending_exit = {}]
        joined(e, x) ==
            Reconciled(x.state, e.calls \o x.calls, x.open_positions, x.used,
                       x.outcome)
        after_entry(e) ==
            IF ~(IsSome(state.pending_exit) /\ e.outcome = "ok") THEN e
            ELSE joined(e, reconcile_exit(
                               e.state, Unwrap(state.pending_exit), input.exit,
                               prices, cfg_,
                               [env EXCEPT !.venue = input.venue_exit,
                                           !.open_positions = e.open_positions,
                                           !.used = e.used]))
    IN  after_entry(
            IF IsSome(state.pending_entry)
            THEN reconcile_entry(taken, Unwrap(state.pending_entry), input.entry,
                                 prices, cfg_,
                                 [env EXCEPT !.venue = input.venue_entry])
            ELSE Reconciled(taken, << >>, env.open_positions, env.used, "ok"))

----------------------------------------------------------------------------
(* Two-leg order coordinator *)

\* the sides of the two directions exchanged
entry_sides_swapped(direction) ==
    IF direction = LongSpread THEN [a |-> Short, b |-> Long]
    ELSE [a |-> Long, b |-> Short]

\* sides of the entry legs (the exit legs take the opposite sides)
entry_sides(direction) ==
    IF direction = LongSpread THEN [a |-> Long, b |-> Short]
    ELSE [a |-> Short, b |-> Long]

\* the first fill record of the order, as `.find()` returns it: {} or {size}
RECURSIVE find_fill(_, _)
find_fill(records, id) ==
    IF records = << >> THEN {}
    ELSE IF Head(records).order_id = id THEN {Head(records).filled_size}
    ELSE find_fill(Tail(records), id)

\* The rollback after leg B failed while leg A (order id_a on symbol) was
\* accepted: cancel leg A, read the fills of the symbol, hedge what the first
\* matching record shows.  venue: [fills ([kind, records]), hedge (create)]
rollback_leg_a(src, key, symbol, id_a, side_a, venue) ==
    LET cancel == Query("cancel_order", src, key, symbol)
        read == [Query("get_filled_orders", src, key, symbol) EXCEPT
                    !.result = venue.fills.kind,
                    !.shown = SumFills(venue.fills.records, id_a)]
        found == find_fill(venue.fills.records, id_a)
        filled_size == IF IsSome(found) THEN Unwrap(found) ELSE 0
        hedge == CreateOrder(src, key, symbol, filled_size,
                             OppositeSide(side_a), FALSE, TRUE)
    IN  << cancel, read >> \o
        (IF venue.fills.kind = "ok" /\ filled_size > 0 THEN << hedge >> ELSE << >>)

\* the size of the hedge a rollback has sent when it covers the whole fill
\* that the rollback read for leg A, else 0
hedged_fill(log) ==
    IF \E i \in 2..Len(log) :
           /\ log[i].op = "create_order" /\ log[i].reduce_only
           /\ log[i - 1].op = "get_filled_orders" /\ log[i - 1].shown = log[i].size
    THEN log[Len(log)].size
    ELSE 0

\* Result of the coordinator: [ok, legs, partial, calls, open_positions, used];
\* ok FALSE with partial TRUE is the PartialOrderPlacementError carrying legs
Placed(ok, legs, partial, calls, open_positions, used) ==
    [ok |-> ok, legs |-> legs, partial |-> partial, calls |-> calls,
     open_positions |-> open_positions, used |-> used]

\* create_order_with_post_only_retry.  answer: [rejected (post-only attempts
\* the venue rejects in a row), exhausted (the loop then ends: attempts or
\* time used up), result (the venue's answer to the call that follows, or the
\* kind of the last rejection)].  Result: [result, calls].
create_order_with_post_only_retry(src, key, symbol, size, side, reduce_only, prices, allow_post_only, max_post_only_attempts, fallback_to_taker, cfg_, answer) ==
    LET use_post_only == allow_post_only /\ cfg_.post_only
        max_attempts == Max(max_post_only_attempts, 1)
        limit == limit_price_for(symbol, prices)
        attempt == CreateOrder(src, key, symbol, size, side, limit, reduce_only)
        taker == CreateOrder(src, key, symbol, size, side, FALSE, reduce_only)
        rejected == Min(answer.rejected, max_attempts)
        exhausted == answer.exhausted \/ rejected >= max_attempts
        rejections == [n \in 1..rejected |-> Answered(attempt, "rejected")]
    IN  IF use_post_only /\ ~limit
        THEN [result |-> "err", calls |-> << >>]
        ELSE IF ~use_post_only
        THEN [result |-> answer.result,
              calls |-> << Answered(attempt, answer.result) >>]
        ELSE IF rejected = 0 \/ ~exhausted
        THEN [result |-> "ok", calls |-> Append(rejections, Answered(attempt, "ok"))]
        ELSE IF fallback_to_taker
        THEN [result |-> answer.result,
              calls |-> Append(rejections, Answered(taker, answer.result))]
        ELSE [result |-> IF answer.result = "ok" THEN "err" ELSE answer.result,
              calls |-> rejections]

\* place_pair_orders.  venue: [a, b (answers to the two legs), ordered_a,
\* ordered_b (ordered_size of the responses, 0 when not reported), fills, hedge]
place_pair_orders(k, direction, qtys, prices, venue, cfg_, env) ==
    LET pair == universe[k]
        side == entry_sides(direction)
        src == "place_pair_orders"
        id_a == FreshId(env.used)
        id_b == FreshId(env.used \cup {id_a})
        target_a == IF venue.ordered_a > 0 THEN venue.ordered_a ELSE qtys[1]
        target_b == IF venue.ordered_b > 0 THEN venue.ordered_b ELSE qtys[2]
        leg_a == PendingLeg(pair.base, id_a, target_a, 0, side.a)
        leg_b == PendingLeg(pair.quote, id_b, target_b, 0, side.b)
        \* res_a, res_b: what the two create_order_with_post_only_retry
        \* calls give; res_b is read only after res_a was accepted
        placed(res_a, res_b) ==
            IF res_a.result # "ok"
            THEN Placed(FALSE, << >>, FALSE, res_a.calls, env.open_positions,
                        env.used)
            ELSE IF res_b.result # "ok"
            THEN Placed(FALSE, << leg_a >>, TRUE,
                        res_a.calls \o res_b.calls \o
                        rollback_leg_a(src, k, pair.base, id_a, side.a, venue),
                        env.open_positions, env.used \cup {id_a})
            ELSE Placed(TRUE, << leg_a, leg_b >>, FALSE, res_a.calls \o res_b.calls,
                        env.open_positions, env.used \cup {id_a, id_b})
    IN  placed(create_order_with_post_only_retry(src, k, pair.base,
                   quantize_order_size_exit(pair.base, qtys[1], prices),
                   side.a, FALSE, prices, TRUE, POST_ONLY_ENTRY_ATTEMPTS, FALSE,
                   cfg_, venue.a),
               create_order_with_post_only_retry(src, k, pair.quote,
                   quantize_order_size_exit(pair.quote, qtys[2], prices),
                   side.b, FALSE, prices, TRUE, POST_ONLY_ENTRY_ATTEMPTS, FALSE,
                   cfg_, venue.b))

\* one leg of close_pair_orders: plain market order when use_market, else the
\* post-only helper with taker fallback
close_leg(k, symbol, qty, side, prices, use_market, cfg_, answer) ==
    IF use_market
    THEN [result |-> answer.result,
          calls |-> << Answered(CreateOrder("close_pair_orders", k, symbol, qty,
                                            side, FALSE, TRUE), answer.result) >>]
    ELSE create_order_with_post_only_retry("close_pair_orders", k, symbol, qty,
             side, TRUE, prices, TRUE, POST_ONLY_EXIT_ATTEMPTS, TRUE, cfg_, answer)

\* the confirmation that follows a rejected close leg: [skip, calls, open_positions]
close_leg_missing(k, symbol, result, answer, open_positions, positions_ready_) ==
    LET confirm == confirm_reduce_only_position_missing(
                       symbol, open_positions, positions_ready_, answer)
        asks == confirm_queries(symbol, open_positions, positions_ready_)
    IN  IF result = "missing"
        THEN [skip |-> confirm.confirmed,
              calls |-> IF asks
                        THEN << Answered(Query("get_positions",
                                    "confirm_reduce_only_position_missing",
                                    k, symbol), answer) >>
                        ELSE << >>,
              open_positions |-> confirm.open_positions]
        ELSE [skip |-> FALSE, calls |-> << >>, open_positions |-> open_positions]

\* close_pair_orders.  venue: [a, b, confirm_a, confirm_b, fills, hedge]
close_pair_orders(k, direction, qtys, prices, use_market, venue, cfg_, env) ==
    LET pair == universe[k]
        side_a == OppositeSide(entry_sides(direction).a)
        side_b == OppositeSide(entry_sides(direction).b)
        id_a == FreshId(env.used)
        \* res_a, miss_a: the answer to leg A and the confirmation after it
        legs(qty_a, qty_b, res_a, miss_a) ==
            LET has_a == qty_a > 0 /\ res_a.result = "ok"
                legs_a == IF has_a
                          THEN << PendingLeg(pair.base, id_a, qty_a, 0, side_a) >>
                          ELSE << >>
                used_a == IF has_a THEN env.used \cup {id_a} ELSE env.used
                calls_a == IF qty_a > 0 THEN res_a.calls \o miss_a.calls ELSE << >>
                open_a == IF qty_a > 0 THEN miss_a.open_positions
                          ELSE env.open_positions
                id_b == FreshId(used_a)
                rollback == IF has_a
                            THEN rollback_leg_a("close_pair_orders", k, pair.base,
                                                id_a, side_a, venue)
                            ELSE << >>
                closed(res_b, miss_b) ==
                    IF qty_a > 0 /\ res_a.result # "ok" /\ ~miss_a.skip
                    THEN Placed(FALSE, << >>, FALSE, calls_a, open_a, env.used)
                    ELSE IF qty_b <= 0
                    THEN Placed(TRUE, legs_a, FALSE, calls_a, open_a, used_a)
                    ELSE IF res_b.result = "ok"
                    THEN Placed(TRUE,
                                Append(legs_a,
                                       PendingLeg(pair.quote, id_b, qty_b, 0, side_b)),
                                FALSE, calls_a \o res_b.calls, open_a,
                                used_a \cup {id_b})
                    ELSE IF miss_b.skip
                    THEN Placed(TRUE, legs_a, FALSE,
                                calls_a \o res_b.calls \o miss_b.calls,
                                miss_b.open_positions, used_a)
                    ELSE Placed(FALSE, legs_a, TRUE,
                                calls_a \o res_b.calls \o miss_b.calls \o rollback,
                                miss_b.open_positions, used_a)
                leg_b(res_b) ==
                    closed(res_b,
                           close_leg_missing(k, pair.quote, res_b.result,
                                             venue.confirm_b, open_a,
                                             env.positions_ready))
            IN  leg_b(close_leg(k, pair.quote, qty_b, side_b, prices, use_market,
                               cfg_, venue.b))
        leg_a(qty_a, qty_b, res_a) ==
            legs(qty_a, qty_b, res_a,
                 close_leg_missing(k, pair.base, res_a.result, venue.confirm_a,
                                   env.open_positions, env.positions_ready))
        sized(qty_a, qty_b) ==
            leg_a(qty_a, qty_b,
                  close_leg(k, pair.base, qty_a, side_a, prices, use_market, cfg_,
                            venue.a))
    IN  sized(quantize_order_size_close(pair.base, qtys[1], prices),
              quantize_order_size_close(pair.quote, qtys[2], prices))

\* register_partial_leg_failure: only a PartialOrderPlacementError leaves a
\* pending handle behind
register_partial_leg_failure_any(state, direction, placed, is_exit, now_) ==
    LET pending == PendingOrders(placed.legs, direction, now_, 0)
    IN  IF is_exit THEN [state EXCEPT !.pending_exit = {pending}]
        ELSE [state EXCEPT !.pending_entry = {pending}]

register_partial_leg_failure(state, direction, placed, is_exit, now_) ==
    LET pending == PendingOrders(placed.legs, direction, now_, 0)
    IN  IF ~placed.partial THEN state
        ELSE IF is_exit THEN [state EXCEPT !.pending_exit = {pending}]
        ELSE [state EXCEPT !.pending_entry = {pending}]

----------------------------------------------------------------------------
(* Sizing *)

\* hedged_sizes with beta = 1: notional / price, raised to min_order
hedged_size(snapshot) ==
    IF snapshot.price = 0 THEN 0
    ELSE LET qty == leg_notional \div snapshot.price
         IN  IF snapshot.min_order # None /\ qty > 0 /\ qty < snapshot.min_order
             THEN snapshot.min_order ELSE qty

hedged_sizes(k, prices) ==
    << hedged_size(Unwrap(prices[universe[k].base])),
       hedged_size(Unwrap(prices[universe[k].quote])) >>

exit_sizes_for_pair(k, state, open_positions, prices) ==
    LET base_snapshot == open_positions[universe[k].base]
        quote_snapshot == open_positions[universe[k].quote]
        size_of(o) == IF IsSome(o) THEN Unwrap(o).size ELSE 0
        entry(v) == IF v = None THEN 0 ELSE v
        qty_a == IF IsSome(state.position)
                 THEN entry(Unwrap(state.position).entry_size_a) ELSE 0
        qty_b == IF IsSome(state.position)
                 THEN entry(Unwrap(state.position).entry_size_b) ELSE 0
    IN  IF IsSome(base_snapshot) \/ IsSome(quote_snapshot)
        THEN << size_of(base_snapshot), size_of(quote_snapshot) >>
        ELSE IF qty_a <= 0 /\ qty_b <= 0 THEN hedged_sizes(k, prices)
        ELSE << qty_a, qty_b >>

----------------------------------------------------------------------------
(* Decision of one pair in step *)

\* What the statistics of a pair say in one tick:
\* [eligible, enough (spread_len >= min_points), z ("none", "pos", "neg"),
\*  exit (exit_reason is Some), enter (the conditions of should_enter after
\*  the cooldown check), deadline (force_close_secs have passed)]
Signal(eligible, enough, z, exit, enter, deadline) ==
    [eligible |-> eligible, enough |-> enough, z |-> z, exit |-> exit,
     enter |-> enter, deadline |-> deadline]

\* should_enter without the cooldown against last_exit_at
should_enter_no_cooldown(state, sig, now_) == sig.enter

should_enter(state, sig, now_) ==
    /\ \/ state.last_exit_at = None
       \/ elapsed(state.last_exit_at, now_) >= cooldown_secs
    /\ sig.enter

NoAction == [kind |-> "None"]
\* TradeAction::Open; z is the sign of the z-score it was decided on
Open(direction, z) ==
    [kind |-> "Open", direction |-> direction, force |-> FALSE, z |-> z]
Close(direction, force) == [kind |-> "Close", direction |-> direction, force |-> force]

\* the action of the pair after the pending and guard checks passed
evaluate_action(state, sig, forced, positions_ready_, now_) ==
    IF forced.kind # "None" THEN forced
    ELSE IF sig.eligible /\ sig.enough
    THEN IF sig.z = "none" THEN NoAction
         ELSE IF IsSome(state.position)
         THEN IF sig.exit THEN Close(Unwrap(state.position).direction, FALSE)
              ELSE NoAction
         ELSE IF ~positions_ready_ THEN NoAction
         ELSE IF should_enter(state, sig, now_)
         THEN Open(IF sig.z = "pos" THEN ShortSpread ELSE LongSpread, sig.z)
         ELSE NoAction
    ELSE IF sig.eligible /\ ~sig.enough THEN NoAction
    ELSE IF IsSome(state.position)
    THEN Close(Unwrap(state.position).direction, FALSE)
    ELSE NoAction

\* the pair loop without the two checks that turn an Open into None
decide_unblocked(k, state, sig, positions_ready_, positions_clear, maintenance_block_entries, last_warn, now_) ==
    IF has_pending(state) THEN [action |-> NoAction, warned |-> FALSE]
    ELSE IF state.position_guard /\ ~(IsSome(state.position) /\ sig.deadline)
    THEN [action |-> NoAction,
          warned |-> should_log_position_warn(last_warn, k, now_)]
    ELSE [action |-> evaluate_action(state, sig,
                         IF IsSome(state.position) /\ sig.deadline
                         THEN Close(Unwrap(state.position).direction, TRUE)
                         ELSE NoAction, positions_ready_, now_),
          warned |-> FALSE]

\* the part of the pair loop after reconcile_pending_orders:
\* [action, warned (last_position_warn is written for the pair)]
decide(k, state, sig, positions_ready_, positions_clear, maintenance_block_entries, last_warn, now_) ==
    LET force_close_due == IsSome(state.position) /\ sig.deadline
        forced == IF force_close_due
                  THEN Close(Unwrap(state.position).direction, TRUE)
                  ELSE NoAction
        evaluated == evaluate_action(state, sig, forced, positions_ready_, now_)
        blocked == evaluated.kind = "Open"
                   /\ (~positions_clear \/ maintenance_block_entries)
    IN  IF has_pending(state) THEN [action |-> NoAction, warned |-> FALSE]
        ELSE IF state.position_guard /\ forced.kind = "None"
        THEN [action |-> NoAction,
              warned |-> should_log_position_warn(last_warn, k, now_)]
        ELSE [action |-> IF blocked THEN NoAction ELSE evaluated,
              warned |-> FALSE]

PlannedAction(k, action) == [key |-> k, action |-> action]

----------------------------------------------------------------------------
(* Entry arbitration *)

pair_symbols(k) == {universe[k].base, universe[k].quote}

active_symbols(sts, open_positions, history) ==
    UNION {pair_symbols(k) : k \in {j \in Pairs : is_active(sts[j])}}
    \cup {sym \in Symbols : IsSome(open_positions[sym]) /\ sym \in history}

\* the Open plans that do not overlap an active symbol, in planned order
entry_candidates(planned, active) ==
    SelectSeq(planned, LAMBDA plan :
        /\ plan.action.kind = "Open"
        /\ pair_symbols(plan.key) \cap active = {})

\* stable sort by state_score, descending (insertion into a sorted prefix)
RECURSIVE sort_by_score(_, _)
sort_by_score(plans, rank) ==
    IF plans = << >> THEN << >>
    ELSE LET n == Len(plans)
             sorted == sort_by_score(SubSeq(plans, 1, n - 1), rank)
             last == plans[n]
             before == SelectSeq(sorted, LAMBDA q :
                           rank[q.key].score >= rank[last.key].score)
             after == SelectSeq(sorted, LAMBDA q :
                           rank[q.key].score < rank[last.key].score)
         IN  before \o << last >> \o after

\* a shortlist that keeps every candidate
take_all(plans, n) == plans

take(plans, n) == SubSeq(plans, 1, Min(n, Len(plans)))

\* the comparison of max_by: funding, then score, then liquidity, then |z|
rank_less_eq(a, b) ==
    IF a.funding # b.funding THEN a.funding < b.funding
    ELSE IF a.score # b.score THEN a.score < b.score
    ELSE IF a.liquidity # b.liquidity THEN a.liquidity < b.liquidity
    ELSE a.abs_z <= b.abs_z

\* Iterator::max_by: the last of the greatest elements; {} or {plan}
RECURSIVE max_by(_, _)
max_by(plans, rank) ==
    IF plans = << >> THEN {}
    ELSE LET n == Len(plans)
             best == max_by(SubSeq(plans, 1, n - 1), rank)
         IN  IF best = {} THEN {plans[n]}
             ELSE IF rank_less_eq(rank[Unwrap(best).key], rank[plans[n].key])
             THEN {plans[n]} ELSE best

\* the shortlist of the `limit` best scores and the maximum taken from it
best_of(candidates, rank, limit) ==
    max_by(take(sort_by_score(candidates, rank), Max(limit, 1)), rank)

best_entry(planned, sts, open_positions, history, rank) ==
    best_of(entry_candidates(planned,
                active_symbols(sts, open_positions, history)),
            rank, max_active_pairs)

----------------------------------------------------------------------------
(* The engine and one tick of its control loop (step) *)

VARIABLES
    now,                 \* the clock: ticks completed so far
    pc,                  \* position inside step: "idle" between ticks
    idx,                 \* loop index of the pair loop / the close loop
    cfg,                 \* [dry_run, observe_only, post_only]
    states,              \* pair index -> PairState
    open_positions,      \* symbol -> {} or {PositionSnapshot}
    positions_ready,
    last_position_warn,  \* pair index -> None or Instant
    history,             \* symbols that have a bar in history
    tick,                \* locals of step
    planned,             \* Vec<PlannedAction>
    calls,               \* connector calls of the current tick, in order
    env,                 \* how the venue behaves in this run (see Profiles)
    rolled,              \* pair index -> fill of leg A that the rollback of the
                         \* pair's failed entry hedged in full, kept until the
                         \* tick that reconciles the handle ends (0: none)
    trial                \* one call of reconcile_pending_orders on a drawn
                         \* pair state (SpecReconcile); {} in Spec

vars == << now, pc, idx, cfg, states, open_positions, positions_ready,
           last_position_warn, history, tick, planned, calls, env, rolled,
           trial >>

\* The venue is explored in two profiles.  "positions": get_positions may
\* show any of the snapshots below and every pair receives signals, while
\* orders are accepted and fill whole or not at all.  "orders": orders may be
\* rejected and fill in part, while only the first pair receives signals and
\* the venue shows nothing or that pair hedged.
Profiles == {"positions", "orders"}

\* fetch_latest_prices answers with the same snapshot for every symbol
PriceMap == [s \in Symbols |-> {[price |-> 1, min_order |-> 2, size_step |-> 1]}]

Config(dry_run, observe_only, post_only) ==
    [dry_run |-> dry_run, observe_only |-> observe_only, post_only |-> post_only,
     entry_partial_fill_max_retries |-> entry_partial_fill_max_retries]

Configs(env_) ==
    IF env_ = "positions"
    THEN {Config(FALSE, FALSE, FALSE), Config(TRUE, FALSE, FALSE),
          Config(FALSE, TRUE, FALSE)}
    ELSE {Config(FALSE, FALSE, FALSE), Config(FALSE, FALSE, TRUE)}

\* locals of step; synced records whether the position reconciler of this
\* tick obtained a snapshot, snapshots the dust-filtered snapshot it then
\* worked on, reconciled the pairs for which reconcile_pending_orders was
\* called, signalled the pairs decided on statistics that ask for an entry
IdleTick ==
    [maintenance_block_entries |-> FALSE, positions_clear |-> TRUE, updated |-> {},
     synced |-> FALSE, snapshots |-> [s \in Symbols |-> {}], reconciled |-> {},
     signalled |-> {}]

Init ==
    /\ now = 0
    /\ pc = "idle"
    /\ idx = 0
    /\ env \in Profiles
    /\ cfg \in Configs(env)
    /\ states = [k \in Pairs |-> NewPairState]
    /\ open_positions = [s \in Symbols |-> {}]
    /\ positions_ready = FALSE
    /\ last_position_warn = [k \in Pairs |-> None]
    /\ history = {}
    /\ tick = IdleTick
    /\ planned = << >>
    /\ calls = << >>
    /\ rolled = [k \in Pairs |-> 0]
    /\ trial = {}

(* Venue inputs of the position reconciler *)

Holding(a, b, c, d) ==
    LET one(v) == IF v = 0 THEN {}
                  ELSE {PositionSnapshot(IF v > 0 THEN 1 ELSE 0 - 1,
                                         IF v > 0 THEN v ELSE 0 - v)}
    IN  [s \in Symbols |-> one(CASE s = "A" -> a [] s = "B" -> b
                                 [] s = "C" -> c [] OTHER -> d)]

\* what get_positions may show: nothing, a hedged A/B, a dust leg, a lone
\* leg, two legs of one sign, and both disjoint pairs held at once
VenueSnapshots ==
    {Holding(0, 0, 0, 0), Holding(2, 0 - 2, 0, 0), Holding(0 - 2, 2, 1, 0),
     Holding(0, 0, 2, 0), Holding(2, 2, 0, 0), Holding(2, 0 - 2, 2, 0 - 2)}

PositionAnswers(env_) ==
    IF env_ = "positions"
    THEN {[kind |-> "ok", positions |-> h] : h \in VenueSnapshots}
         \cup {[kind |-> "not_ready", positions |-> Holding(0, 0, 0, 0)],
               [kind |-> "err", positions |-> Holding(0, 0, 0, 0)]}
    ELSE {[kind |-> "ok", positions |-> h] :
             h \in {Holding(0, 0, 0, 0), Holding(2, 0 - 2, 0, 0)}}

\* bars close for every symbol at once, or for none
UpdatedSets == {Symbols, {}}

\* the answers worth drawing for the lone-leg closures of a sync
ClosureVenues(eng, answer, prices, cfg_, now_) ==
    LET venues(closures, after) ==
            {v \in [1..Len(closures) -> VenueLegResp] :
                \A i \in 1..Len(closures) :
                    \/ unhedged_close_orders(closures[i], after, prices, cfg_, now_)
                    \/ v[i] = [create |-> "ok", answer |-> "none"]}
        of(looped) ==
            venues(IF answer.kind = "ok" THEN looped.unhedged_closures ELSE << >>,
                   looped.states)
    IN  of(sync_begin(eng, answer, prices, now_))

Engine == [states |-> states, open_positions |-> open_positions,
           positions_ready |-> positions_ready,
           last_position_warn |-> last_position_warn]

\* step up to the pair loop: maintenance check, prices, position reconciler,
\* bar building
StepBegin ==
    /\ pc = "idle"
    /\ now <= MaxTime
    /\ \E maintenance \in BOOLEAN, prices_ok \in BOOLEAN,
          answer \in PositionAnswers(env), updated \in UpdatedSets :
          IF ~prices_ok
          THEN /\ maintenance = FALSE /\ updated = {}
               /\ answer.positions = Holding(0, 0, 0, 0)
               /\ pc' = "done"
               /\ UNCHANGED << idx, states, open_positions, positions_ready,
                               last_position_warn, history, tick, planned, calls >>
          ELSE \E venue \in ClosureVenues(Engine, answer, PriceMap, cfg, now) :
               LET after(synced) ==
                       /\ env = "orders" => ~maintenance
                       /\ states' = synced.states
                       /\ open_positions' = synced.open_positions
                       /\ positions_ready' = synced.positions_ready
                       /\ last_position_warn' = synced.last_position_warn
                       /\ calls' = synced.calls
                       /\ history' = history \cup updated
                       /\ tick' = [maintenance_block_entries |-> maintenance,
                                   positions_clear |->
                                       \A sym \in Symbols :
                                           ~IsSome(synced.open_positions[sym]),
                                   updated |-> updated,
                                   synced |-> answer.kind = "ok",
                                   snapshots |->
                                       IF answer.kind = "ok"
                                       THEN filter_snapshots(answer.positions, PriceMap)
                                       ELSE [s \in Symbols |-> {}],
                                   reconciled |-> {}, signalled |-> {}]
                       /\ planned' = << >>
                       /\ idx' = 1
                       /\ pc' = "pairs"
               IN  after(sync_positions_from_exchange(
                             Engine, answer, venue, PriceMap, cfg, now))
    /\ UNCHANGED << now, cfg, env, rolled, trial >>

(* Venue inputs of the pending order reconciler *)

FillRecord(order_id, filled_size) == [order_id |-> order_id, filled_size |-> filled_size]

\* one fill record per order that has a fill
RECURSIVE RecordsOf(_, _)
RecordsOf(legs, fill) ==
    IF legs = << >> THEN << >>
    ELSE (IF fill[Head(legs).order_id] > 0
          THEN << FillRecord(Head(legs).order_id, fill[Head(legs).order_id]) >>
          ELSE << >>)
         \o RecordsOf(Tail(legs), fill)

\* the order status the venue may report for a pending handle: the queries
\* fail, or every order shows a fill of 0..MaxFill and the orders that are
\* not filled are still open or all gone
StatusAnswers(pending, env_) ==
    {[kind |-> "err", open |-> {}, records |-> << >>]}
    \cup {[kind |-> "ok",
           open |-> IF still_open
                    THEN {pending.legs[i].order_id :
                             i \in {j \in 1..Len(pending.legs) :
                                       fill[pending.legs[j].order_id]
                                           < pending.legs[j].target}}
                    ELSE {},
           records |-> RecordsOf(pending.legs, fill)] :
          fill \in {f \in [LegIds(pending.legs) -> 0..MaxFill] :
                       \/ env_ = "orders"
                       \/ \A i \in 1..Len(pending.legs) :
                              f[pending.legs[i].order_id] = 0
                       \/ \A i \in 1..Len(pending.legs) :
                              f[pending.legs[i].order_id] = pending.legs[i].target},
          still_open \in BOOLEAN}

AllOk(pending) ==
    [i \in 1..Len(pending.legs) |-> [create |-> "ok", answer |-> "none"]]

\* the order answers worth drawing for the pending_entry part
EntryVenues(pending0, answer, prices, cfg_) ==
    LET status == pending_status(pending0, answer)
        pending == update_pending_fills(pending0, status.fills)
        filled_qtys == filled_by_leg(pending, status.fills)
        next_retry == pending.hedge_retry_count + 1
        use_market == entry_use_market(cfg_.entry_partial_fill_max_retries,
                                       next_retry)
    IN  IF answer.kind = "err" \/ all_filled(pending, status.fills)
        THEN {AllOk(pending0)}
        ELSE IF any_filled(filled_qtys)
        THEN ReissueVenues(pending, filled_qtys, prices, FALSE, use_market)
        ELSE {AllOk(pending0)}

\* the order answers worth drawing for the pending_exit part
ExitVenues(pending0, answer, prices, now_) ==
    LET status == pending_status(pending0, answer)
        pending == update_pending_fills(pending0, status.fills)
        filled_qtys == filled_by_leg(pending, status.fills)
        next_retry == pending.hedge_retry_count + 1
    IN  IF \/ answer.kind = "err"
           \/ status.open_remaining = 0 /\ all_filled(pending, status.fills)
           \/ next_retry > MAX_EXIT_RETRIES
        THEN {AllOk(pending0)}
        ELSE IF any_filled(filled_qtys)
        THEN ReissueVenues(pending, filled_qtys, prices, TRUE, TRUE)
        ELSE IF \/ elapsed(pending.placed_at, now_) >= Max(order_timeout_secs, 1)
                \/ status.open_remaining = 0
        THEN {v \in [1..Len(pending.legs) -> VenueLegResp] :
                 \A i \in 1..Len(pending.legs) :
                     /\ v[i].answer = "none"
                     /\ v[i].create # "missing"
                     /\ \/ exit_retry_orders(pending.legs[i], filled_qtys, prices)
                        \/ v[i].create = "ok"}
        ELSE {AllOk(pending0)}

NoStatus == [kind |-> "ok", open |-> {}, records |-> << >>]

ReconcileInputs(state, prices, cfg_, now_, env_) ==
        {[entry |-> e.status, venue_entry |-> e.venue,
          exit |-> x.status, venue_exit |-> x.venue] :
            e \in IF IsSome(state.pending_entry)
                  THEN UNION {{[status |-> a, venue |-> v] :
                                  v \in EntryVenues(Unwrap(state.pending_entry), a,
                                                   prices, cfg_)} :
                              a \in StatusAnswers(Unwrap(state.pending_entry), env_)}
                  ELSE {[status |-> NoStatus, venue |-> << >>]},
            x \in IF IsSome(state.pending_exit)
                  THEN UNION {{[status |-> a, venue |-> v] :
                                  v \in ExitVenues(Unwrap(state.pending_exit), a, prices, now_)} :
                              a \in StatusAnswers(Unwrap(state.pending_exit), env_)}
                  ELSE {[status |-> NoStatus, venue |-> << >>]}}

\* what the statistics may say about a pair: nothing to do, an exit reason,
\* an entry on either side, the pair no longer eligible, the deadline passed
Signals ==
    {Signal(TRUE, TRUE, "pos", FALSE, FALSE, FALSE),
     Signal(TRUE, TRUE, "pos", TRUE, FALSE, FALSE),
     Signal(TRUE, TRUE, "pos", FALSE, TRUE, FALSE),
     Signal(TRUE, TRUE, "neg", FALSE, TRUE, FALSE),
     Signal(FALSE, TRUE, "none", FALSE, FALSE, FALSE),
     Signal(TRUE, FALSE, "pos", FALSE, FALSE, TRUE)}

\* the signals that can matter to the pair: exits for a pair with a position,
\* entries for a pair without
SignalsFor(k, state, env_) ==
    {sig \in Signals :
        /\ IF IsSome(state.position) THEN ~sig.enter
           ELSE sig.eligible /\ ~sig.exit /\ ~sig.deadline
        /\ env_ = "orders" /\ k # 1
               => sig = Signal(TRUE, TRUE, "pos", FALSE, FALSE, FALSE)}

\* one iteration of the pair loop of step
StepPair ==
    /\ pc = "pairs"
    /\ IF ~(pair_symbols(idx) \subseteq tick.updated)
       THEN /\ UNCHANGED << states, open_positions, last_position_warn,
                            planned, calls, tick >>
            /\ idx' = IF idx = Len(universe) THEN 1 ELSE idx + 1
            /\ pc' = IF idx = Len(universe) THEN "closes" ELSE "pairs"
       ELSE \E input \in ReconcileInputs(states[idx], PriceMap, cfg, now, env) :
            LET \* the rest of the iteration, r the reconciler's result and d
                \* the decision taken for the pair
                decided(r, d, asks) ==
                    /\ states' = [states EXCEPT ![idx] = r.state]
                    /\ tick' = [tick EXCEPT
                                   !.reconciled = @ \cup {idx},
                                   !.signalled = IF asks /\ r.outcome # "err"
                                                 THEN @ \cup {idx} ELSE @]
                    /\ open_positions' = r.open_positions
                    /\ calls' = calls \o r.calls
                    /\ IF r.outcome = "err"
                       THEN /\ pc' = "done"
                            /\ UNCHANGED << idx, last_position_warn, planned >>
                       ELSE /\ last_position_warn' =
                                   IF d.warned
                                   THEN [last_position_warn EXCEPT ![idx] = now]
                                   ELSE last_position_warn
                            /\ planned' =
                                   IF d.action.kind = "None" THEN planned
                                   ELSE Append(planned, PlannedAction(idx, d.action))
                            /\ idx' = IF idx = Len(universe) THEN 1 ELSE idx + 1
                            /\ pc' = IF idx = Len(universe) THEN "closes" ELSE "pairs"
                reconciled(r) ==
                    \E sig \in SignalsFor(idx, r.state, env) :
                        decided(r, decide(idx, r.state, sig, positions_ready,
                                          tick.positions_clear,
                                          tick.maintenance_block_entries,
                                          last_position_warn, now),
                                sig.eligible /\ sig.enough /\ sig.enter)
            IN  reconciled(reconcile_pending_orders(
                    states[idx], input, PriceMap, cfg,
                    [key |-> idx, venue |-> << >>, used |-> TrackedIds(states),
                     open_positions |-> open_positions,
                     positions_ready |-> positions_ready, now |-> now]))
    /\ UNCHANGED << now, cfg, positions_ready, history, env, rolled, trial >>

(* Venue inputs of the order coordinator *)

Answer(result) == [rejected |-> 0, exhausted |-> FALSE, result |-> result]

\* the venue rejects one post-only attempt and the retry budget is then used up
Rejected(result) == [rejected |-> 1, exhausted |-> TRUE, result |-> result]

\* the answers to one leg of an entry
EntryAnswers(cfg_) ==
    {Answer("ok"), Answer("err")}
    \cup (IF cfg_.post_only THEN {Rejected("err")} ELSE {})

\* the answers to one leg of an exit
ExitAnswers(cfg_, use_market) ==
    {Answer("ok"), Answer("err"), Answer("missing")}
    \cup (IF cfg_.post_only /\ ~use_market THEN {Rejected("ok")} ELSE {})

\* what get_filled_orders may show for leg A (order id) during a rollback:
\* the query fails, no record, one record, or the fill in two records
RollbackFills(id) ==
    {[kind |-> "err", records |-> << >>],
     [kind |-> "ok", records |-> << >>],
     [kind |-> "ok", records |-> << FillRecord(id, 1) >>],
     [kind |-> "ok", records |-> << FillRecord(id, 2) >>],
     [kind |-> "ok", records |-> << FillRecord(id, 1), FillRecord(id, 1) >>]}

NoFills == [kind |-> "ok", records |-> << >>]

PlaceVenues(id_a, env_, cfg_) ==
    {v \in [a : EntryAnswers(cfg_), b : EntryAnswers(cfg_),
            ordered_a : {0}, ordered_b : {0}, fills : RollbackFills(id_a)] :
        /\ (v.a.result = "ok" /\ v.b.result # "ok") \/ v.fills = NoFills
        /\ env_ = "positions" => v.a = Answer("ok") /\ v.b = Answer("ok")}

CloseVenues(id_a, env_, cfg_, use_market) ==
    {v \in [a : ExitAnswers(cfg_, use_market), b : ExitAnswers(cfg_, use_market),
            confirm_a : {"none", "has"}, confirm_b : {"none", "has"},
            fills : RollbackFills(id_a)] :
        /\ v.a.result = "missing" \/ v.confirm_a = "none"
        /\ v.b.result = "missing" \/ v.confirm_b = "none"
        /\ (v.a.result = "ok" /\ v.b.result # "ok") \/ v.fills = NoFills
        /\ env_ = "positions" => v.a = Answer("ok") /\ v.b = Answer("ok")}

\* index of the first Close plan at or after i, 0 when there is none
next_close_none(plans, i) == 0

next_close(plans, i) ==
    IF \E j \in i..Len(plans) : plans[j].action.kind = "Close"
    THEN CHOOSE j \in i..Len(plans) :
             /\ plans[j].action.kind = "Close"
             /\ \A m \in i..(j - 1) : plans[m].action.kind # "Close"
    ELSE 0

OrderEnv(k) ==
    [key |-> k, venue |-> << >>, used |-> TrackedIds(states),
     open_positions |-> open_positions, positions_ready |-> positions_ready,
     now |-> now]

\* one iteration of the "process exits first" loop of step, for a Close plan
StepClose ==
    /\ pc = "closes"
    /\ next_close(planned, idx) # 0
    /\ LET i == next_close(planned, idx)
           plan == planned[i]
           k == plan.key
           qtys == exit_sizes_for_pair(k, states[k], open_positions, PriceMap)
       IN  /\ idx' = i + 1
           /\ IF qtys[1] <= 0 /\ qtys[2] <= 0
              THEN /\ states' = [states EXCEPT ![k].position = {},
                                               ![k].pending_exit = {},
                                               ![k].position_guard = FALSE,
                                               ![k].last_exit_at = now]
                   /\ UNCHANGED << pc, open_positions, calls >>
              ELSE IF cfg.dry_run
              THEN /\ states' = [states EXCEPT ![k].position = {},
                                               ![k].last_exit_at = now]
                   /\ UNCHANGED << pc, open_positions, calls >>
              ELSE IF cfg.observe_only
              THEN UNCHANGED << pc, states, open_positions, calls >>
              ELSE \E venue \in CloseVenues(FreshId(TrackedIds(states)), env, cfg,
                                             plan.action.force) :
                   LET after(placed) ==
                           /\ calls' = calls \o placed.calls
                           /\ open_positions' = placed.open_positions
                           /\ IF placed.ok
                              THEN /\ states' = [states EXCEPT ![k].pending_exit =
                                          {PendingOrders(placed.legs,
                                               plan.action.direction, now, 0)}]
                                   /\ UNCHANGED pc
                              ELSE /\ states' = [states EXCEPT ![k] =
                                          register_partial_leg_failure(
                                              @, plan.action.direction, placed,
                                              TRUE, now)]
                                   /\ pc' = "done"
                   IN  after(close_pair_orders(k, plan.action.direction, qtys,
                                 PriceMap, plan.action.force, venue, cfg,
                                 OrderEnv(k)))
    /\ UNCHANGED << now, cfg, positions_ready, last_position_warn, history,
                    tick, planned, env, rolled, trial >>

\* what the arbitration reads for a pair: state_score and the plan's
\* net funding, liquidity score and |z|
Ranks == [score : 1..2, funding : {1}, liquidity : {1}, abs_z : {1}]

\* the entry part of step: arbitration, then the entry of the best candidate
StepEntry ==
    /\ pc = "closes"
    /\ next_close(planned, idx) = 0
    /\ pc' = "done"
    /\ \E rank \in [Pairs -> Ranks] :
       LET best == best_entry(planned, states, open_positions, history, rank)
           plan == Unwrap(best)
           k == plan.key
           direction == plan.action.direction
           qtys == hedged_sizes(k, PriceMap)
       IN  /\ \A j \in Pairs :
                  (\A i \in 1..Len(planned) :
                       planned[i].key # j \/ planned[i].action.kind # "Open")
                  => rank[j] = [score |-> 1, funding |-> 1, liquidity |-> 1,
                                abs_z |-> 1]
           /\ IF best = {} \/ cfg.observe_only
              THEN UNCHANGED << states, open_positions, calls, rolled >>
              ELSE IF cfg.dry_run
              THEN /\ states' = [states EXCEPT ![k].position =
                                    {Position(direction, qtys[1], qtys[2])}]
                   /\ UNCHANGED << open_positions, calls, rolled >>
              ELSE \E venue \in PlaceVenues(FreshId(TrackedIds(states)), env, cfg) :
                   LET after(placed) ==
                           /\ calls' = calls \o placed.calls
                           /\ rolled' = [rolled EXCEPT ![k] = hedged_fill(placed.calls)]
                           /\ open_positions' = placed.open_positions
                           /\ states' = [states EXCEPT ![k] =
                                  IF placed.ok
                                  THEN [@ EXCEPT !.pending_entry =
                                           {PendingOrders(placed.legs, direction,
                                                          now, 0)}]
                                  ELSE register_partial_leg_failure(
                                           @, direction, placed, FALSE, now)]
                   IN  after(place_pair_orders(k, direction, qtys, PriceMap,
                                               venue, cfg, OrderEnv(k)))
    /\ UNCHANGED << now, idx, cfg, positions_ready, last_position_warn, history,
                    tick, planned, env, trial >>

\* step has returned; the ticker waits for the next tick
StepEnd ==
    /\ pc = "done"
    /\ pc' = "idle"
    /\ now' = now + 1
    /\ idx' = 0
    /\ tick' = IdleTick
    /\ planned' = << >>
    /\ calls' = << >>
    /\ rolled' = [k \in Pairs |->
                      IF /\ k \in tick.reconciled
                         /\ \A i \in 1..Len(calls) :
                                ~(calls[i].src = "place_pair_orders" /\ calls[i].key = k)
                      THEN 0 ELSE rolled[k]]
    /\ UNCHANGED << cfg, states, open_positions, positions_ready,
                    last_position_warn, history, env, trial >>

Next == StepBegin \/ StepPair \/ StepClose \/ StepEntry \/ StepEnd

Spec == Init /\ [][Next]_vars

----------------------------------------------------------------------------
(* reconcile_pending_orders on its own: one call on a drawn pair state *)

\* a two-leg handle of the first pair, as place_pair_orders or
\* close_pair_orders leaves it and as earlier fills have updated it
TrialPendings(is_exit) ==
    {PendingOrders(
         << PendingLeg(PairKey(1).base, 1, ta, fa,
                       IF is_exit THEN OppositeSide(entry_sides(d).a)
                       ELSE entry_sides(d).a),
            PendingLeg(PairKey(1).quote, 2, tb, fb,
                       IF is_exit THEN OppositeSide(entry_sides(d).b)
                       ELSE entry_sides(d).b) >>,
         d, 0, n) :
        d \in {LongSpread, ShortSpread}, ta \in 2..MaxTarget, tb \in 2..MaxTarget,
        fa \in 0..1, fb \in 0..1, n \in 0..MAX_EXIT_RETRIES}

\* a pair with a pending entry, with the base leg alone of an entry whose
\* quote leg was rejected, or with a position and a pending exit
TrialStates ==
    {[NewPairState EXCEPT !.pending_entry = {p}] : p \in TrialPendings(FALSE)}
    \cup {[NewPairState EXCEPT
              !.pending_entry = {[p EXCEPT !.legs = << p.legs[1] >>]}] :
             p \in TrialPendings(FALSE)}
    \cup {[NewPairState EXCEPT
              !.position = {Position(p.direction, p.legs[1].target, p.legs[2].target)},
              !.pending_exit = {p}] : p \in TrialPendings(TRUE)}

TrialOpenPositions(state) ==
    IF IsSome(state.pending_exit)
    THEN LET p == Unwrap(state.pending_exit)
             sign(leg) == IF leg.side = Short THEN 1 ELSE 0 - 1
         IN  [s \in Symbols |->
                 IF s = p.legs[1].symbol
                 THEN {PositionSnapshot(sign(p.legs[1]), p.legs[1].target)}
                 ELSE IF s = p.legs[2].symbol
                 THEN {PositionSnapshot(sign(p.legs[2]), p.legs[2].target)}
                 ELSE {}]
    ELSE [s \in Symbols |-> {}]

TrialEnv(state, now_) ==
    [key |-> 1, venue |-> << >>,
     used |-> TrackedIds([k \in Pairs |-> IF k = 1 THEN state ELSE NewPairState]),
     open_positions |-> TrialOpenPositions(state),
     positions_ready |-> TRUE, now |-> now_]

\* the price maps a call may be handed: every symbol priced, the base
\* symbol of the first pair without a snapshot, or with a price of zero
TrialPrices ==
    {PriceMap,
     [PriceMap EXCEPT ![PairKey(1).base] = {}],
     [PriceMap EXCEPT ![PairKey(1).base] =
         {[price |-> 0, min_order |-> 2, size_step |-> 1]}]}

\* the engine's cache when the call is made: open_positions as the position
\* reconciler of the tick left it, and positions_ready
TrialCache(state) ==
    [open_positions |-> TrialOpenPositions(state), positions_ready |-> TRUE]

Trial(state, now_, prices) ==
    [phase |-> "drawn", state |-> state, now |-> now_, prices |-> prices,
     cache |-> TrialCache(state), input |-> {}, result |-> {},
     venue |-> {}]

InitReconcile ==
    /\ now = 0
    /\ pc = "idle"
    /\ idx = 0
    /\ env = "orders"
    /\ cfg = Config(FALSE, FALSE, FALSE)
    /\ states = [k \in Pairs |-> NewPairState]
    /\ open_positions = [s \in Symbols |-> {}]
    /\ positions_ready = FALSE
    /\ last_position_warn = [k \in Pairs |-> None]
    /\ history = {}
    /\ tick = IdleTick
    /\ planned = << >>
    /\ calls = << >>
    /\ rolled = [k \in Pairs |-> 0]
    /\ \E st \in TrialStates, t \in {0, order_timeout_secs},
          prices \in TrialPrices :
           trial = {Trial(st, t, prices)}

ReconcileCall ==
    /\ trial # {}
    /\ Unwrap(trial).phase = "drawn"
    /\ LET t == Unwrap(trial)
       IN  \E input \in ReconcileInputs(t.state, t.prices, cfg, t.now, env) :
               trial' = {[t EXCEPT
                            !.phase = "done",
                            !.input = {input},
                            !.result = {reconcile_pending_orders(
                                            t.state, input, t.prices, cfg,
                                            [TrialEnv(t.state, t.now) EXCEPT
                                                !.open_positions =
                                                    t.cache.open_positions,
                                                !.positions_ready =
                                                    t.cache.positions_ready])}]}
    /\ UNCHANGED << now, pc, idx, cfg, states, open_positions, positions_ready,
                    last_position_warn, history, tick, planned, calls, env,
                    rolled >>

NextReconcile == ReconcileCall

SpecReconcile == InitReconcile /\ [][NextReconcile]_vars

----------------------------------------------------------------------------
(* sync_positions_from_exchange, and the decision of a pair that follows   *)
(* it in step, on drawn engine states                                      *)

\* the handle of an entry (or, is_exit, of an exit) of pair k placed at clock 0
SyncPending(k, direction, is_exit) ==
    PendingOrders(
        << PendingLeg(PairKey(k).base, 2 * k - 1, leg_notional, 0,
                      IF is_exit THEN OppositeSide(entry_sides(direction).a)
                      ELSE entry_sides(direction).a),
           PendingLeg(PairKey(k).quote, 2 * k, leg_notional, 0,
                      IF is_exit THEN OppositeSide(entry_sides(direction).b)
                      ELSE entry_sides(direction).b) >>,
        direction, 0, 0)

\* what earlier ticks may have left of pair k: nothing, an exit at clock 0,
\* a position, an entry in flight, an exit in flight
SyncPairStates(k) ==
    {NewPairState,
     [NewPairState EXCEPT !.last_exit_at = 0],
     [NewPairState EXCEPT !.position = {Position(LongSpread, leg_notional, leg_notional)}],
     [NewPairState EXCEPT !.pending_entry = {SyncPending(k, ShortSpread, FALSE)}],
     [NewPairState EXCEPT
         !.position = {Position(LongSpread, leg_notional, leg_notional)},
         !.pending_exit = {SyncPending(k, LongSpread, TRUE)}]}

\* pairs that share a symbol are not active together
SyncStates ==
    {sts \in [Pairs -> UNION {SyncPairStates(k) : k \in Pairs}] :
        /\ \A k \in Pairs : sts[k] \in SyncPairStates(k)
        /\ \A j, k \in Pairs :
               j # k /\ is_active(sts[j]) /\ is_active(sts[k])
                   => pair_symbols(j) \cap pair_symbols(k) = {}}

\* clock readings on both sides of the lone-leg cooldown and of the age at
\* which the "not ready" answer clears a pending slot
SyncTimes ==
    {0, UNHEDGED_CLOSE_COOLDOWN_SECS - 1, UNHEDGED_CLOSE_COOLDOWN_SECS,
     6 * Max(order_timeout_secs, 1) - 1, 6 * Max(order_timeout_secs, 1)}

InitSync ==
    /\ now \in SyncTimes
    /\ pc = "idle"
    /\ idx = 0
    /\ env = "positions"
    /\ cfg \in Configs(env)
    /\ states \in SyncStates
    /\ open_positions = [s \in Symbols |-> {}]
    /\ positions_ready \in BOOLEAN
    /\ last_position_warn = [k \in Pairs |-> None]
    /\ history = {}
    /\ tick = IdleTick
    /\ planned = << >>
    /\ calls = << >>
    /\ rolled = [k \in Pairs |-> 0]
    /\ trial = {}

\* the position reconciler as step calls it; trial keeps what it started from
SyncCall ==
    /\ pc = "idle"
    /\ \E maintenance \in BOOLEAN, answer \in PositionAnswers(env) :
       \E venue \in ClosureVenues(Engine, answer, PriceMap, cfg, now) :
           LET after(synced) ==
                   /\ states' = synced.states
                   /\ open_positions' = synced.open_positions
                   /\ positions_ready' = synced.positions_ready
                   /\ last_position_warn' = synced.last_position_warn
                   /\ calls' = synced.calls
                   /\ tick' = [maintenance_block_entries |-> maintenance,
                               positions_clear |->
                                   \A sym \in Symbols :
                                       ~IsSome(synced.open_positions[sym]),
                               updated |-> Symbols,
                               synced |-> answer.kind = "ok",
                               snapshots |->
                                   IF answer.kind = "ok"
                                   THEN filter_snapshots(answer.positions, PriceMap)
                                   ELSE [s \in Symbols |-> {}],
                               reconciled |-> {}, signalled |-> {}]
           IN  after(sync_positions_from_exchange(
                         Engine, answer, venue, PriceMap, cfg, now))
       /\ trial' = {[states |-> states, positions_ready |-> positions_ready,
                     answer |-> answer.kind, sig |-> {}]}
    /\ pc' = "pairs"
    /\ idx' = 1
    /\ UNCHANGED << now, cfg, history, planned, env, rolled >>

\* the decision of step for one pair after the reconciler, for a drawn signal
SyncDecide ==
    /\ pc = "pairs"
    /\ \E k \in Pairs :
       \E sig \in SignalsFor(k, states[k], env) :
           LET decided(d) ==
                   /\ planned' = IF d.action.kind = "None" THEN << >>
                                 ELSE << PlannedAction(k, d.action) >>
                   /\ last_position_warn' =
                          IF d.warned THEN [last_position_warn EXCEPT ![k] = now]
                          ELSE last_position_warn
                   /\ idx' = k
                   /\ trial' = {[Unwrap(trial) EXCEPT !.sig = {sig}]}
           IN  decided(decide(k, states[k], sig, positions_ready,
                              tick.positions_clear,
                              tick.maintenance_block_entries,
                              last_position_warn, now))
    /\ pc' = "done"
    /\ UNCHANGED << now, cfg, states, open_positions, positions_ready, history,
                    tick, calls, env, rolled >>

NextSync == SyncCall \/ SyncDecide

SpecSync == InitSync /\ [][NextSync]_vars

----------------------------------------------------------------------------
(* should_enter, exit_reason and the decision of step on numeric           *)
(* statistics.  z and the thresholds on it are counted in tenths of a      *)
(* sigma, PnL in units of the risk budget's half.                          *)

\* cfg.entry_z_base (2.0), the z_entry of the pair
z_entry == 20
\* cfg.exit_z (0.5)
exit_z == 5
\* cfg.stop_loss_z (3.0)
stop_loss_z == 30
\* cfg.force_close_secs, in clock units
force_close_secs == 3
\* cfg.net_funding_min_per_hour
net_funding_min_per_hour == 0
\* equity_base * cfg.risk_pct_per_trade
risk_budget == 2
\* cfg.max_loss_r_mult
max_loss_r_mult == 1
\* total_cost_bps / 10_000, in tenths of a sigma at std 1
cost_ratio == 2

Abs(x) == IF x < 0 THEN 0 - x ELSE x

\* The statistics of a pair in one tick:
\* [eligible, enough, z (z_snapshot: {} or {z}), std, net_funding,
\*  pnl (compute_pnl: {} or {pnl}), elapsed (age of the position),
\*  half_life (hours), gain (1 - decay, in tenths)]
Stats(eligible, enough, z, std, net_funding, pnl, elapsed_, half_life, gain) ==
    [eligible |-> eligible, enough |-> enough, z |-> z, std |-> std,
     net_funding |-> net_funding, pnl |-> pnl, elapsed |-> elapsed_,
     half_life |-> half_life, gain |-> gain]

\* should_enter after the cooldown check
enter_conditions(stats) ==
    LET z == Abs(Unwrap(stats.z))
        entry_threshold == IF stats.net_funding > 0 THEN (z_entry * 9) \div 10
                           ELSE z_entry
        cost_in_sigma == IF stats.std <= 0 THEN 0 ELSE cost_ratio \div stats.std
    IN  /\ ~(z >= stop_loss_z)
        /\ ~(z < entry_threshold)
        /\ z >= entry_threshold + cost_in_sigma
        /\ stats.net_funding >= net_funding_min_per_hour

NoReason == "-"

\* exit_reason with the PnL checks ahead of the checks on z
exit_reason_pnl_first(stats) ==
    IF IsSome(stats.pnl) /\ Unwrap(stats.pnl) >= risk_budget THEN "risk_budget"
    ELSE IF Abs(Unwrap(stats.z)) >= stop_loss_z THEN "stop_loss_z"
    ELSE NoReason

\* exit_reason for a pair that has a position
exit_reason(stats) ==
    LET z == Abs(Unwrap(stats.z))
        has_pnl == IsSome(stats.pnl)
        pnl == Unwrap(stats.pnl)
        remaining_secs == force_close_secs - stats.elapsed
    IN  IF z >= stop_loss_z THEN "stop_loss_z"
        ELSE IF stats.elapsed >= force_close_secs THEN "force_close"
        ELSE IF exit_z > 0 /\ z <= exit_z THEN "exit_z"
        ELSE IF /\ has_pnl /\ risk_budget > 0 /\ max_loss_r_mult > 0
                /\ pnl <= 0 - risk_budget * max_loss_r_mult
        THEN "max_loss_r"
        ELSE IF has_pnl /\ risk_budget > 0 /\ pnl >= risk_budget
        THEN "risk_budget"
        ELSE IF /\ stats.std > 0 /\ has_pnl /\ pnl > 0
                /\ stats.half_life > 0 /\ remaining_secs > 0
                /\ z * stats.gain * stats.std <= cost_ratio * 10
        THEN "expected_value"
        ELSE NoReason

\* the Signal that step reads off the statistics
signal_of(state, stats) ==
    Signal(stats.eligible, stats.enough,
           IF ~IsSome(stats.z) THEN "none"
           ELSE IF Unwrap(stats.z) > 0 THEN "pos" ELSE "neg",
           IsSome(state.position) /\ IsSome(stats.z)
               /\ exit_reason(stats) # NoReason,
           IsSome(stats.z) /\ enter_conditions(stats),
           stats.elapsed >= force_close_secs)

\* the reason step logs ("[EXIT_CHECK] reason=") on the way to a Close
exit_check(state, stats) ==
    IF ~IsSome(state.position) THEN NoReason
    ELSE IF stats.elapsed >= force_close_secs THEN "force_close"
    ELSE IF stats.eligible /\ stats.enough
    THEN IF IsSome(stats.z) THEN exit_reason(stats) ELSE NoReason
    ELSE IF stats.eligible THEN NoReason
    ELSE "ineligible"

ZValues == {0 - 30, 0 - 22, 0 - 5, 0, 5, 18, 20, 22, 30}

\* what the statistics may say of a pair without a position
EntryStats ==
    {Stats(eligible, enough, z, std, net_funding, {}, 0, 1, 1) :
        eligible \in BOOLEAN, enough \in BOOLEAN,
        z \in {{}} \cup {{v} : v \in ZValues}, std \in 0..2,
        net_funding \in {0 - 1, 0, 1}}

\* what the statistics may say of a pair with a position
ExitStats ==
    {Stats(s.eligible, s.enough, s.z, s.std, 0, s.pnl, s.elapsed, s.half_life, s.gain) :
        s \in [eligible : BOOLEAN, enough : BOOLEAN,
               z : {{}} \cup {{v} : v \in ZValues}, std : 0..1,
               pnl : {{}} \cup {{v} : v \in {0 - risk_budget, 0, 1, risk_budget}},
               elapsed : {0, force_close_secs}, half_life : 0..1,
               gain : {1, 9}]}

\* the pair as earlier ticks may have left it: nothing, an exit at clock 0,
\* a position, a position and the guard
DecisionStates ==
    {NewPairState,
     [NewPairState EXCEPT !.last_exit_at = 0],
     [NewPairState EXCEPT !.position = {Position(LongSpread, leg_notional, leg_notional)}],
     [NewPairState EXCEPT !.position = {Position(ShortSpread, leg_notional, leg_notional)},
                          !.position_guard = TRUE]}

InitDecision ==
    /\ now \in {cooldown_secs - 1, cooldown_secs}
    /\ pc = "pairs"
    /\ idx = 1
    /\ env = "positions"
    /\ cfg = Config(FALSE, FALSE, FALSE)
    /\ \E st \in DecisionStates :
           /\ states = [k \in Pairs |-> IF k = 1 THEN st ELSE NewPairState]
           /\ \E stats \in IF IsSome(st.position) THEN ExitStats ELSE EntryStats :
                  trial = {[stats |-> stats, result |-> {}]}
    /\ open_positions = [s \in Symbols |-> {}]
    /\ positions_ready = TRUE
    /\ last_position_warn = [k \in Pairs |-> None]
    /\ history = {}
    /\ tick = IdleTick
    /\ planned = << >>
    /\ calls = << >>
    /\ rolled = [k \in Pairs |-> 0]

\* the decision of step for the pair, on the drawn statistics
DecisionCall ==
    /\ pc = "pairs"
    /\ LET stats == Unwrap(trial).stats
           sig == signal_of(states[idx], stats)
           decided(d) ==
               /\ planned' = IF d.action.kind = "None" THEN << >>
                             ELSE << PlannedAction(idx, d.action) >>
               /\ last_position_warn' =
                      IF d.warned THEN [last_position_warn EXCEPT ![idx] = now]
                      ELSE last_position_warn
               /\ trial' = {[stats |-> stats,
                             result |-> {[should_enter |->
                                             /\ IsSome(stats.z)
                                             /\ should_enter(states[idx], sig, now),
                                          reason |->
                                             IF d.action.kind = "Close"
                                             THEN exit_check(states[idx], stats)
                                             ELSE NoReason]}]}
       IN  decided(decide(idx, states[idx], sig, positions_ready,
                          tick.positions_clear, tick.maintenance_block_entries,
                          last_position_warn, now))
    /\ pc' = "done"
    /\ UNCHANGED << now, idx, cfg, states, open_positions, positions_ready,
                    history, tick, calls, env, rolled >>

NextDecision == DecisionCall

SpecDecision == InitDecision /\ [][NextDecision]_vars

----------------------------------------------------------------------------
(* The entry arbitration of step on drawn plans, ranks and shortlist sizes *)

\* largest cfg.max_active_pairs that is drawn
MaxActivePairs == 2

\* state_score, net funding, liquidity score and |z| of a candidate
ArbitrationRanks == [score : 1..2, funding : 0..1, liquidity : {1}, abs_z : 1..2]

\* what the pair loop may have planned: per pair nothing, an Open or a Close,
\* in the order of cfg.universe
RECURSIVE ArbitrationPlans(_)
ArbitrationPlans(k) ==
    IF k > Len(universe) THEN {<< >>}
    ELSE LET rest == ArbitrationPlans(k + 1)
         IN  rest
             \cup {<< PlannedAction(k, Open(ShortSpread, "pos")) >> \o r :
                      r \in rest}
             \cup {<< PlannedAction(k, Close(LongSpread, FALSE)) >> \o r : r \in rest}

\* the pairs with a Close plan hold a position; one more pair may be active
\* with an entry in flight
ArbitrationStates(plans) ==
    {sts \in [Pairs -> {NewPairState,
                        [NewPairState EXCEPT !.position =
                            {Position(LongSpread, leg_notional, leg_notional)}],
                        [NewPairState EXCEPT !.position_guard = TRUE]}] :
        \A k \in Pairs :
            /\ IsSome(sts[k].position)
                   <=> \E i \in 1..Len(plans) :
                           plans[i].key = k /\ plans[i].action.kind = "Close"
            /\ sts[k].position_guard
                   => \A i \in 1..Len(plans) : plans[i].key # k}

InitArbitration ==
    /\ now = 0
    /\ pc = "closes"
    /\ idx = 1
    /\ env = "positions"
    /\ cfg = Config(FALSE, FALSE, FALSE)
    /\ planned \in ArbitrationPlans(1)
    /\ states \in ArbitrationStates(planned)
    /\ open_positions = [s \in Symbols |-> {}]
    /\ positions_ready = TRUE
    /\ last_position_warn = [k \in Pairs |-> None]
    /\ history = Symbols
    /\ tick = IdleTick
    /\ calls = << >>
    /\ rolled = [k \in Pairs |-> 0]
    /\ \E limit \in 0..MaxActivePairs, rank \in [Pairs -> ArbitrationRanks] :
           /\ \A j \in Pairs :
                  (\A i \in 1..Len(planned) :
                       planned[i].key # j \/ planned[i].action.kind # "Open")
                  => rank[j] = [score |-> 1, funding |-> 0, liquidity |-> 1,
                                abs_z |-> 1]
           /\ trial = {[limit |-> limit, rank |-> rank, phase |-> "drawn",
                        best |-> {}]}

\* the arbitration of step with cfg.max_active_pairs = limit
ArbitrationCall ==
    /\ pc = "closes"
    /\ LET t == Unwrap(trial)
       IN  trial' = {[t EXCEPT
                        !.phase = "done",
                        !.best = best_of(
                            entry_candidates(planned,
                                active_symbols(states, open_positions, history)),
                            t.rank, t.limit)]}
    /\ pc' = "done"
    /\ UNCHANGED << now, idx, cfg, states, open_positions, positions_ready,
                    last_position_warn, history, tick, planned, calls, env,
                    rolled >>

NextArbitration == ArbitrationCall

SpecArbitration == InitArbitration /\ [][NextArbitration]_vars

----------------------------------------------------------------------------
(* PairState::push_spread on a pair of its own *)

\* largest cfg.metrics_window that is drawn
MaxWindow == 3
\* number of spread updates of a run
MaxPushes == 4
\* largest spread value
MaxSpread == 2

\* push_spread that never evicts
push_spread_unbounded(spread_history, spread, window) ==
    Append(spread_history, spread)

\* push_spread: the spread_history after the update; pop_front leaves an
\* empty deque as it is
push_spread(spread_history, spread, window) ==
    Append(IF Len(spread_history) >= window /\ spread_history # << >>
           THEN Tail(spread_history) ELSE spread_history,
           spread)

\* PairState::new(window, z_entry) of a pair, cfg.metrics_window drawn;
\* pushed lists every spread handed to push_spread so far
InitSpread ==
    /\ now = 0
    /\ pc = "idle"
    /\ idx = 0
    /\ env = "positions"
    /\ cfg = Config(FALSE, FALSE, FALSE)
    /\ states = [k \in Pairs |-> NewPairState]
    /\ open_positions = [s \in Symbols |-> {}]
    /\ positions_ready = FALSE
    /\ last_position_warn = [k \in Pairs |-> None]
    /\ history = {}
    /\ tick = IdleTick
    /\ planned = << >>
    /\ calls = << >>
    /\ rolled = [k \in Pairs |-> 0]
    /\ \E window \in 0..MaxWindow :
           trial = {[window |-> window, spread_history |-> << >>,
                     pushed |-> << >>]}

\* one spread update of step
PushSpread ==
    /\ trial # {}
    /\ Len(Unwrap(trial).pushed) < MaxPushes
    /\ \E spread \in 0..MaxSpread :
           LET t == Unwrap(trial)
           IN  trial' = {[t EXCEPT
                            !.spread_history = push_spread(@, spread, t.window),
                            !.pushed = Append(@, spread)]}
    /\ UNCHANGED << now, pc, idx, cfg, states, open_positions, positions_ready,
                    last_position_warn, history, tick, planned, calls, env,
                    rolled >>

NextSpread == PushSpread

SpecSpread == InitSpread /\ [][NextSpread]_vars

----------------------------------------------------------------------------
(* The size and price rounding helpers on inputs of their own *)

\* largest size handed to the size quantizers, in units
MaxSize == 4
\* largest step or tick size, in units
MaxStep == 3
\* largest min_order, in units
MaxMinOrder == 3
\* largest price handed to round_price_by_tick, in units
MaxPrice == 4

\* Option<Decimal> min_order
MinOrders == {None} \cup (0..MaxMinOrder)

\* the arguments of one call of each helper, nothing computed yet
InitQuantize ==
    /\ now = 0
    /\ pc = "idle"
    /\ idx = 0
    /\ env = "positions"
    /\ cfg = Config(FALSE, FALSE, FALSE)
    /\ states = [k \in Pairs |-> NewPairState]
    /\ open_positions = [s \in Symbols |-> {}]
    /\ positions_ready = FALSE
    /\ last_position_warn = [k \in Pairs |-> None]
    /\ history = {}
    /\ tick = IdleTick
    /\ planned = << >>
    /\ calls = << >>
    /\ rolled = [k \in Pairs |-> 0]
    /\ \E size \in 0..MaxSize, step \in 0..MaxStep, min_order \in MinOrders,
          price \in 0..MaxPrice :
           trial = {[size |-> size, step |-> step, min_order |-> min_order,
                     price |-> price, sizes |-> {}, rounded |-> {}]}

\* quantize_order_size / quantize_order_size_exit: both size quantizers on
\* the drawn size
QuantizeSize ==
    /\ trial # {}
    /\ Unwrap(trial).sizes = {}
    /\ LET t == Unwrap(trial)
       IN  trial' = {[t EXCEPT !.sizes =
               {[down |-> quantize_size_by_step(t.size, t.step, t.min_order),
                 up   |-> quantize_size_by_step_ceiling(t.size, t.step,
                                                        t.min_order)]}]}
    /\ UNCHANGED << now, pc, idx, cfg, states, open_positions, positions_ready,
                    last_position_warn, history, tick, planned, calls, env,
                    rolled >>

\* round_price: the drawn price rounded for a long and for a short order
RoundPrice ==
    /\ trial # {}
    /\ Unwrap(trial).rounded = {}
    /\ LET t == Unwrap(trial)
       IN  trial' = {[t EXCEPT !.rounded =
               {[long  |-> round_price_by_tick(t.price, t.step, Long),
                 short |-> round_price_by_tick(t.price, t.step, Short)]}]}
    /\ UNCHANGED << now, pc, idx, cfg, states, open_positions, positions_ready,
                    last_position_warn, history, tick, planned, calls, env,
                    rolled >>

NextQuantize == QuantizeSize \/ RoundPrice

SpecQuantize == InitQuantize /\ [][NextQuantize]_vars

----------------------------------------------------------------------------
(* reconcile_pending_orders on a pending entry, cfg.entry_partial_fill_max_retries drawn *)

\* largest cfg.entry_partial_fill_max_retries that is drawn
MaxRetries == 2

\* a pending entry of the first pair, every symbol priced, and a
\* configuration with entry_partial_fill_max_retries of 0..MaxRetries
InitEntryRetry ==
    /\ now = 0
    /\ pc = "idle"
    /\ idx = 0
    /\ env = "orders"
    /\ \E max_retries \in 0..MaxRetries :
           cfg = [Config(FALSE, FALSE, FALSE) EXCEPT
                     !.entry_partial_fill_max_retries = max_retries]
    /\ states = [k \in Pairs |-> NewPairState]
    /\ open_positions = [s \in Symbols |-> {}]
    /\ positions_ready = FALSE
    /\ last_position_warn = [k \in Pairs |-> None]
    /\ history = {}
    /\ tick = IdleTick
    /\ planned = << >>
    /\ calls = << >>
    /\ rolled = [k \in Pairs |-> 0]
    /\ \E st \in {x \in TrialStates : IsSome(x.pending_entry)} :
           trial = {Trial(st, 0, PriceMap)}

SpecEntryRetry == InitEntryRetry /\ [][NextReconcile]_vars

----------------------------------------------------------------------------
(* reconcile_pending_orders on a pending exit, the engine's position cache drawn *)

\* the caches a reconciliation may find: the legs of the exit still held,
\* no position on any symbol, and either of them with positions_ready unset
TrialCaches(state) ==
    {[open_positions |-> held, positions_ready |-> ready] :
        held \in {TrialOpenPositions(state), [s \in Symbols |-> {}]},
        ready \in BOOLEAN}

\* a pending exit of the first pair placed in this tick and not reissued
\* before, every symbol priced
InitExitCache ==
    /\ now = 0
    /\ pc = "idle"
    /\ idx = 0
    /\ env = "orders"
    /\ cfg = Config(FALSE, FALSE, FALSE)
    /\ states = [k \in Pairs |-> NewPairState]
    /\ open_positions = [s \in Symbols |-> {}]
    /\ positions_ready = FALSE
    /\ last_position_warn = [k \in Pairs |-> None]
    /\ history = {}
    /\ tick = IdleTick
    /\ planned = << >>
    /\ calls = << >>
    /\ rolled = [k \in Pairs |-> 0]
    /\ \E st \in {x \in TrialStates :
                     /\ IsSome(x.pending_exit)
                     /\ Unwrap(x.pending_exit).hedge_retry_count = 0} :
           \E cache \in TrialCaches(st) :
               trial = {[Trial(st, 0, PriceMap) EXCEPT !.cache = cache]}

SpecExitCache == InitExitCache /\ [][NextReconcile]_vars

----------------------------------------------------------------------------
(* sync_positions_from_exchange inside and outside the warning interval *)

\* the pairs were warned about at time 0 or never; the clock reads a time
\* inside the warning interval or its end
InitSyncWarn ==
    /\ now \in {0, WARN_INTERVAL}
    /\ pc = "idle"
    /\ idx = 0
    /\ env = "positions"
    /\ cfg = Config(FALSE, FALSE, FALSE)
    /\ states \in SyncStates
    /\ open_positions = [s \in Symbols |-> {}]
    /\ positions_ready = TRUE
    /\ last_position_warn \in {[k \in Pairs |-> None], [k \in Pairs |-> 0]}
    /\ history = {}
    /\ tick = IdleTick
    /\ planned = << >>
    /\ calls = << >>
    /\ rolled = [k \in Pairs |-> 0]
    /\ trial = {}

SpecSyncWarn == InitSyncWarn /\ [][NextSync]_vars

----------------------------------------------------------------------------
(* reconcile_pending_orders on a fresh pending entry, and the venue's fills *)

\* a pending entry as place_pair_orders left it: two legs, never reissued
InitEntryFill ==
    /\ now = 0
    /\ pc = "idle"
    /\ idx = 0
    /\ env = "orders"
    /\ cfg = Config(FALSE, FALSE, FALSE)
    /\ states = [k \in Pairs |-> NewPairState]
    /\ open_positions = [s \in Symbols |-> {}]
    /\ positions_ready = FALSE
    /\ last_position_warn = [k \in Pairs |-> None]
    /\ history = {}
    /\ tick = IdleTick
    /\ planned = << >>
    /\ calls = << >>
    /\ rolled = [k \in Pairs |-> 0]
    /\ \E st \in {x \in TrialStates :
                     /\ IsSome(x.pending_entry)
                     /\ Unwrap(x.pending_entry).hedge_retry_count = 0
                     /\ Len(Unwrap(x.pending_entry).legs) = 2} :
           trial = {Trial(st, 0, PriceMap)}

\* The venue's side of one reissue.  The engine read the fill of the leg's
\* order in pending_status, then sent cancel_orders, then create_order for
\* the residual: the order may have filled further before the cancellation
\* took effect (at_cancel, at most the order's size), and the venue fills
\* the reissued order by any amount up to its size.
VenueFills ==
    /\ trial # {}
    /\ Unwrap(trial).phase = "done"
    /\ LET t == Unwrap(trial)
           result == Unwrap(t.result)
           records == Unwrap(t.input).entry.records
           fill(leg) == Min(Max(SumFills(records, leg.order_id), leg.filled),
                            leg.target)
       IN  /\ IsSome(t.state.pending_entry)
           /\ \E i \in 1..Len(Unwrap(t.state.pending_entry).legs),
                 j \in 1..Len(result.calls) :
                  LET leg == Unwrap(t.state.pending_entry).legs[i]
                      order == result.calls[j]
                  IN  /\ order.op = "create_order"
                      /\ order.src = "reissue_partial_legs"
                      /\ order.result = "ok"
                      /\ order.symbol = leg.symbol
                      /\ \E at_cancel \in fill(leg)..leg.target,
                            reissued \in 0..order.size :
                             trial' = {[t EXCEPT
                                          !.phase = "settled",
                                          !.venue = {[leg |-> i,
                                                      at_cancel |-> at_cancel,
                                                      reissued |-> reissued]}]}
    /\ UNCHANGED << now, pc, idx, cfg, states, open_positions, positions_ready,
                    last_position_warn, history, tick, planned, calls, env,
                    rolled >>

NextEntryFill == ReconcileCall \/ VenueFills

SpecEntryFill == InitEntryFill /\ [][NextEntryFill]_vars

----------------------------------------------------------------------------
(* two consecutive reconcile_pending_orders of one pending entry *)

\* step calls reconcile_pending_orders for the pair again in the next tick,
\* on the state the first call left; idx counts the calls after the first
ReconcileAgain ==
    /\ trial # {}
    /\ Unwrap(trial).phase = "done"
    /\ idx = 0
    /\ LET t == Unwrap(trial)
           result == Unwrap(t.result)
       IN  /\ result.outcome # "err"
           /\ IsSome(result.state.pending_entry)
           /\ trial' = {Trial(result.state, t.now, t.prices)}
    /\ idx' = 1
    /\ UNCHANGED << now, pc, cfg, states, open_positions, positions_ready,
                    last_position_warn, history, tick, planned, calls, env,
                    rolled >>

NextEntryAgain == ReconcileCall \/ ReconcileAgain

SpecEntryAgain == InitEntryFill /\ [][NextEntryAgain]_vars

----------------------------------------------------------------------------
(* force_close_on_startup *)

\* largest cfg.startup_force_close_attempts drawn
MaxAttempts == 3
\* largest cfg.startup_force_close_wait_secs drawn, in clock units
MaxWait == 1

\* the loop bound that ignores the floor of one attempt
startup_attempts_unclamped(startup_force_close_attempts) ==
    startup_force_close_attempts

\* attempts: cfg.startup_force_close_attempts.max(1)
startup_attempts(startup_force_close_attempts) ==
    Max(startup_force_close_attempts, 1)

StartupCall(op) == Query(op, "force_close_on_startup", 0, "-")

\* trial holds the locals of force_close_on_startup: the two settings it
\* reads, the loop variable attempt, the await it is at (phase) and whether
\* the alert mail was sent
InitStartup ==
    /\ now = 0
    /\ pc = "idle"
    /\ idx = 0
    /\ env = "positions"
    /\ cfg \in Configs(env)
    /\ states = [k \in Pairs |-> NewPairState]
    /\ open_positions = [s \in Symbols |-> {}]
    /\ positions_ready = FALSE
    /\ last_position_warn = [k \in Pairs |-> None]
    /\ history = {}
    /\ tick = IdleTick
    /\ planned = << >>
    /\ calls = << >>
    /\ rolled = [k \in Pairs |-> 0]
    /\ \E attempts \in 0..MaxAttempts, wait_secs \in 0..MaxWait :
           trial = {[phase |-> "start",
                     startup_force_close_attempts |-> attempts,
                     startup_force_close_wait_secs |-> wait_secs,
                     attempt |-> 0, alerted |-> FALSE]}

StartupUnchanged ==
    UNCHANGED << pc, idx, cfg, states, open_positions, positions_ready,
                 last_position_warn, history, tick, planned, env, rolled >>

\* the early return of dry_run / observe_only, or cancel_all_orders, whose
\* failure is only logged, and the entry of `for attempt in 1..=attempts`
StartupBegin ==
    /\ trial # {} /\ Unwrap(trial).phase = "start"
    /\ LET t == Unwrap(trial)
           attempts == startup_attempts(t.startup_force_close_attempts)
       IN  IF cfg.dry_run \/ cfg.observe_only
           THEN /\ trial' = {[t EXCEPT !.phase = "returned"]}
                /\ calls' = calls
                /\ now' = now
           ELSE /\ \E result \in {"ok", "err"} :
                       calls' = Append(calls,
                                       Answered(StartupCall("cancel_all_orders"),
                                                result))
                /\ trial' = {IF 1 <= attempts
                             THEN [t EXCEPT !.phase = "query", !.attempt = 1]
                             ELSE [t EXCEPT !.phase = "final"]}
                /\ now' = IF 1 <= attempts THEN now
                          ELSE now + t.startup_force_close_wait_secs
    /\ StartupUnchanged

\* get_positions at the head of the loop body: "none" returns
StartupQuery ==
    /\ trial # {} /\ Unwrap(trial).phase = "query"
    /\ \E answer \in {"none", "some", "err"} :
           /\ calls' = Append(calls, Answered(StartupCall("get_positions"), answer))
           /\ trial' = {[Unwrap(trial) EXCEPT
                            !.phase = IF answer = "none" THEN "returned"
                                      ELSE "close"]}
    /\ now' = now
    /\ StartupUnchanged

\* close_all_positions, whose failure is only logged, the sleep between two
\* attempts, and the sleep after the last one
StartupClose ==
    /\ trial # {} /\ Unwrap(trial).phase = "close"
    /\ LET t == Unwrap(trial)
           attempts == startup_attempts(t.startup_force_close_attempts)
       IN  /\ \E result \in {"ok", "err"} :
                  calls' = Append(calls,
                                  Answered(StartupCall("close_all_positions"), result))
           /\ trial' = {IF t.attempt < attempts
                        THEN [t EXCEPT !.phase = "query", !.attempt = @ + 1]
                        ELSE [t EXCEPT !.phase = "final"]}
           /\ now' = now + t.startup_force_close_wait_secs
    /\ StartupUnchanged

\* the position query after the loop: positions still open send the mail
StartupFinal ==
    /\ trial # {} /\ Unwrap(trial).phase = "final"
    /\ \E answer \in {"none", "some", "err"} :
           /\ calls' = Append(calls, Answered(StartupCall("get_positions"), answer))
           /\ trial' = {[Unwrap(trial) EXCEPT !.phase = "returned",
                                              !.alerted = answer = "some"]}
    /\ now' = now
    /\ StartupUnchanged

NextStartup == StartupBegin \/ StartupQuery \/ StartupClose \/ StartupFinal

\* every await of force_close_on_startup completes
SpecStartup == InitStartup /\ [][NextStartup]_vars /\ WF_vars(NextStartup)

----------------------------------------------------------------------------
(* place_pair_orders and close_pair_orders on drawn sizes *)

\* the snapshots drawn: min_order absent or 1..MaxMinOrder, the step of
\* size_decimals absent or 1..MaxStep, the same for every symbol
SizeMaps ==
    {[s \in Symbols |-> {[price |-> 1, min_order |-> m, size_step |-> st]}] :
        m \in MinOrders, st \in {None} \cup 1..MaxStep}

\* the sizes asked for the two legs, the sizing data and the direction
InitPlace ==
    /\ now = 0
    /\ pc = "idle"
    /\ idx = 0
    /\ env = "orders"
    /\ cfg = Config(FALSE, FALSE, FALSE)
    /\ states = [k \in Pairs |-> NewPairState]
    /\ open_positions = [s \in Symbols |-> {}]
    /\ positions_ready = FALSE
    /\ last_position_warn = [k \in Pairs |-> None]
    /\ history = {}
    /\ tick = IdleTick
    /\ planned = << >>
    /\ calls = << >>
    /\ rolled = [k \in Pairs |-> 0]
    /\ \E qty_a, qty_b \in 1..MaxSize, prices \in SizeMaps,
          direction \in {LongSpread, ShortSpread} :
           trial = {[phase |-> "drawn", direction |-> direction,
                     qtys |-> << qty_a, qty_b >>, prices |-> prices,
                     result |-> {}]}

\* place_pair_orders for the first pair
PlaceCall ==
    /\ trial # {} /\ Unwrap(trial).phase = "drawn"
    /\ LET t == Unwrap(trial)
       IN  \E venue \in PlaceVenues(FreshId(TrackedIds(states)), env, cfg) :
               trial' = {[t EXCEPT
                            !.phase = "placed",
                            !.result = {place_pair_orders(
                                            1, t.direction, t.qtys, t.prices,
                                            venue, cfg, OrderEnv(1))}]}
    /\ UNCHANGED << now, pc, idx, cfg, states, open_positions, positions_ready,
                    last_position_warn, history, tick, planned, calls, env,
                    rolled >>

\* close_pair_orders for the first pair
CloseCall ==
    /\ trial # {} /\ Unwrap(trial).phase = "drawn"
    /\ LET t == Unwrap(trial)
       IN  \E use_market \in BOOLEAN :
           \E venue \in CloseVenues(FreshId(TrackedIds(states)), env, cfg,
                                    use_market) :
               trial' = {[t EXCEPT
                            !.phase = "closed",
                            !.result = {close_pair_orders(
                                            1, t.direction, t.qtys, t.prices,
                                            use_market, venue, cfg,
                                            OrderEnv(1))}]}
    /\ UNCHANGED << now, pc, idx, cfg, states, open_positions, positions_ready,
                    last_position_warn, history, tick, planned, calls, env,
                    rolled >>

NextPlace == PlaceCall \/ CloseCall

SpecPlace == InitPlace /\ [][NextPlace]_vars

----------------------------------------------------------------------------
(* BarBuilder and the history samples of step *)

\* largest cfg.trading_period_secs (window_secs of the builders) drawn
MaxBarWindow == 2
\* largest timestamp a tick reads
MaxTs == 3
\* largest price of a snapshot
MaxBarPrice == 2
\* number of ticks of a run
MaxBarTicks == 3
\* max_history_len() of the run
BarHistoryLen == 2

\* the symbols that have a bar builder
BarSymbols == {universe[1].base, universe[1].quote}

\* BarBuilder::new
BarBuilderNew ==
    [start_ts |-> None, open |-> 0, high |-> 0, low |-> 0, close |-> 0]

\* BarBuilder::push that closes the bar only after more than window_secs
push_after_window(builder, window_secs, ts, price) ==
    IF builder.start_ts = None \/ ts - builder.start_ts > window_secs
    THEN [builder |-> [start_ts |-> ts, open |-> price, high |-> price,
                       low |-> price, close |-> price],
          emitted |-> IF builder.start_ts = None THEN {}
                      ELSE {[price |-> builder.close,
                             ts |-> builder.start_ts + window_secs]}]
    ELSE [builder |-> [builder EXCEPT !.close = price], emitted |-> {}]

\* BarBuilder::push.  Result: [builder, emitted ({} or {[price, ts]})]
push(builder, window_secs, ts, price) ==
    LET fresh == [start_ts |-> ts, open |-> price, high |-> price,
                  low |-> price, close |-> price]
    IN  IF builder.start_ts = None
        THEN [builder |-> fresh, emitted |-> {}]
        ELSE IF ts - builder.start_ts >= window_secs
        THEN [builder |-> fresh,
              emitted |-> {[price |-> builder.close,
                            ts |-> builder.start_ts + window_secs]}]
        ELSE [builder |->
                  [builder EXCEPT
                      !.high = IF price > @ THEN price ELSE @,
                      !.low = IF price < @ \/ @ = 0 THEN price ELSE @,
                      !.close = price],
              emitted |-> {}]

\* the sample step stores for an emitted bar: the logarithm of its close
PriceSample(emitted) == [log_price |-> [ln |-> emitted.price], ts |-> emitted.ts]

\* the history of a symbol after step has handled what its builder gave
push_history(samples, emitted) ==
    IF emitted = {} THEN samples
    ELSE Append(IF Len(samples) >= BarHistoryLen THEN Tail(samples) ELSE samples,
                PriceSample(Unwrap(emitted)))

\* trial: window_secs, the builders and the histories, and of the latest
\* tick the timestamp, the price map, the builders it found and what each
\* builder returned
InitBars ==
    /\ now = 0
    /\ pc = "idle"
    /\ idx = 0
    /\ env = "positions"
    /\ cfg = Config(FALSE, FALSE, FALSE)
    /\ states = [k \in Pairs |-> NewPairState]
    /\ open_positions = [s \in Symbols |-> {}]
    /\ positions_ready = FALSE
    /\ last_position_warn = [k \in Pairs |-> None]
    /\ history = {}
    /\ tick = IdleTick
    /\ planned = << >>
    /\ calls = << >>
    /\ rolled = [k \in Pairs |-> 0]
    /\ \E window_secs \in 1..MaxBarWindow :
           trial = {[window_secs |-> window_secs,
                     bar_builders |-> [s \in BarSymbols |-> BarBuilderNew],
                     samples |-> [s \in BarSymbols |-> << >>],
                     ticks |-> 0, now_ts |-> 0,
                     price_map |-> [s \in BarSymbols |-> {}],
                     before |-> [s \in BarSymbols |-> BarBuilderNew],
                     emitted |-> [s \in BarSymbols |-> {}],
                     updated |-> {}]}

\* the history loop of step for one tick: every symbol of the price map is
\* pushed to its builder, and what a builder emits is appended to history
BarTick ==
    /\ trial # {}
    /\ Unwrap(trial).ticks < MaxBarTicks
    /\ LET t == Unwrap(trial)
       IN  \E now_ts \in 0..MaxTs,
              price_map \in [BarSymbols -> {{}} \cup {{p} : p \in 1..MaxBarPrice}] :
               LET pushed(s) == push(t.bar_builders[s], t.window_secs, now_ts,
                                     Unwrap(price_map[s]))
                   emitted == [s \in BarSymbols |->
                                  IF price_map[s] = {} THEN {}
                                  ELSE pushed(s).emitted]
               IN  trial' = {[t EXCEPT
                       !.bar_builders = [s \in BarSymbols |->
                                            IF price_map[s] = {} THEN @[s]
                                            ELSE pushed(s).builder],
                       !.samples = [s \in BarSymbols |->
                                       push_history(@[s], emitted[s])],
                       !.ticks = @ + 1,
                       !.now_ts = now_ts,
                       !.price_map = price_map,
                       !.before = t.bar_builders,
                       !.emitted = emitted,
                       !.updated = {s \in BarSymbols : emitted[s] # {}}]}
    /\ UNCHANGED << now, pc, idx, cfg, states, open_positions, positions_ready,
                    last_position_warn, history, tick, planned, calls, env,
                    rolled >>

NextBars == BarTick

SpecBars == InitBars /\ [][NextBars]_vars

----------------------------------------------------------------------------
(* run in backtest mode: step and ReplayConnector::tick *)

\* largest number of entries of a replay file
MaxEntries == 4

\* the timestamps (ms) an entry of the replay file may carry
EntryStamps == {0, 1500}

\* ReplayConnector::tick that runs up to the length of the data
tick_to_len(cursor, len) ==
    IF cursor < len
    THEN [cursor |-> cursor + 1, has_more |-> TRUE]
    ELSE [cursor |-> cursor, has_more |-> FALSE]

\* ReplayConnector::tick on a file of len entries.  Result: [cursor, has_more]
replay_tick(cursor, len) ==
    IF cursor < len - 1
    THEN [cursor |-> cursor + 1, has_more |-> TRUE]
    ELSE [cursor |-> cursor, has_more |-> FALSE]

\* ReplayConnector::current_timestamp_secs (cursor counts from 0)
current_timestamp_secs(data, cursor) ==
    IF cursor + 1 \in DOMAIN data THEN {data[cursor + 1] \div 1000} ELSE {}

\* ReplayConnector::new leaves a file of at least one entry, the cursor at 0;
\* trial holds the connector and the position of run in its loop
InitReplay ==
    /\ now = 0
    /\ pc = "idle"
    /\ idx = 0
    /\ env = "positions"
    /\ cfg = Config(FALSE, FALSE, FALSE)
    /\ states = [k \in Pairs |-> NewPairState]
    /\ open_positions = [s \in Symbols |-> {}]
    /\ positions_ready = FALSE
    /\ last_position_warn = [k \in Pairs |-> None]
    /\ history = {}
    /\ tick = IdleTick
    /\ planned = << >>
    /\ calls = << >>
    /\ rolled = [k \in Pairs |-> 0]
    /\ \E n \in 1..MaxEntries :
       \E data \in [1..n -> EntryStamps] :
           trial = {[data |-> data, cursor |-> 0, phase |-> "step",
                     steps |-> 0, failed |-> 0, now_ts |-> {},
                     ticked |-> {}]}

ReplayUnchanged ==
    UNCHANGED << now, pc, idx, cfg, states, open_positions, positions_ready,
                 last_position_warn, history, tick, planned, calls, env, rolled >>

\* one step of the backtest loop: it reads the timestamp of the current
\* entry, and its error is only logged
BacktestStep ==
    /\ trial # {} /\ Unwrap(trial).phase = "step"
    /\ LET t == Unwrap(trial)
       IN  \E failure \in BOOLEAN :
               trial' = {[t EXCEPT
                            !.phase = "tick",
                            !.steps = @ + 1,
                            !.failed = IF failure THEN @ + 1 ELSE @,
                            !.now_ts = current_timestamp_secs(t.data, t.cursor)]}
    /\ ReplayUnchanged

\* replay.tick() and the test of has_more
BacktestTick ==
    /\ trial # {} /\ Unwrap(trial).phase = "tick"
    /\ LET t == Unwrap(trial)
           ticked == replay_tick(t.cursor, Len(t.data))
       IN  trial' = {[t EXCEPT
                        !.cursor = ticked.cursor,
                        !.phase = IF ticked.has_more THEN "step" ELSE "finished",
                        !.ticked = {[cursor |-> t.cursor,
                                     has_more |-> ticked.has_more]}]}
    /\ ReplayUnchanged

NextReplay == BacktestStep \/ BacktestTick

\* step returns and tick returns
SpecReplay == InitReplay /\ [][NextReplay]_vars /\ WF_vars(NextReplay)

----------------------------------------------------------------------------
(* Properties *)

\* the ticker is between two ticks
AtTickBoundary == pc = "idle"

\* step has returned and the calls of the tick are all in the log
AtTickEnd == pc = "done"

\* the position reconciler of this tick has just run
AfterSync == pc = "pairs" /\ idx = 1

SlotsSet(state) ==
    (IF IsSome(state.position) THEN 1 ELSE 0)
    + (IF IsSome(state.pending_entry) THEN 1 ELSE 0)
    + (IF IsSome(state.pending_exit) THEN 1 ELSE 0)

\* a pair with a position, a pending entry or a pending exit
HoldsSomething(state) == SlotsSet(state) > 0

\* C1 as stated: at every tick boundary each pair has at most one of
\* position, pending_entry and pending_exit set.
C1_AtMostOneSlot ==
    AtTickBoundary => \A k \in Pairs : SlotsSet(states[k]) <= 1

\* C1, amended: at every tick boundary a pair with a pending entry has
\* neither a position nor a pending exit; a position and a pending exit are
\* held together while an exit is in flight.
C1_PendingEntryAlone ==
    AtTickBoundary =>
        \A k \in Pairs :
            IsSome(states[k].pending_entry)
                => ~IsSome(states[k].position) /\ ~IsSome(states[k].pending_exit)

\* a boundary at which one pair holds a position with its exit in flight and
\* another pair holds a pending entry
C1_ExitInFlightBesideEntry ==
    /\ AtTickBoundary
    /\ \E k \in Pairs : IsSome(states[k].position) /\ IsSome(states[k].pending_exit)
    /\ \E k \in Pairs : IsSome(states[k].pending_entry)

present(snapshots, symbol) == IsSome(snapshots[symbol])

opposite_signs(snapshots, k) ==
    /\ present(snapshots, PairKey(k).base)
    /\ present(snapshots, PairKey(k).quote)
    /\ Unwrap(snapshots[PairKey(k).base]).sign
           * Unwrap(snapshots[PairKey(k).quote]).sign < 0

C3_SymbolExclusivity ==
    AtTickBoundary =>
        \A j, k \in Pairs :
            j # k /\ HoldsSomething(states[j]) /\ HoldsSomething(states[k])
                => pair_symbols(j) \cap pair_symbols(k) = {}

\* C4 as stated: at every tick boundary at most max_active_pairs pairs have a
\* position, a pending entry or a pending exit.
C4_ActivePairsWithinLimit ==
    AtTickBoundary =>
        Cardinality({k \in Pairs : HoldsSomething(states[k])}) <= max_active_pairs


\* an order of the two-leg entry of pair k on the symbol
IsEntryOrder(call, k, symbol) ==
    /\ call.op = "create_order" /\ call.src = "place_pair_orders"
    /\ call.key = k /\ call.symbol = symbol /\ ~call.reduce_only

\* the positions of the entry orders of pair k on the symbol in the log
EntryOrders(log, k, symbol) ==
    {i \in 1..Len(log) : IsEntryOrder(log[i], k, symbol)}

Last(set) == CHOOSE i \in set : \A j \in set : j <= i

\* leg A of the entry of pair k was accepted and leg B could not be placed
LegBFailedAfterLegA(log, k) ==
    /\ \E a \in EntryOrders(log, k, PairKey(k).base) : log[a].result = "ok"
    /\ EntryOrders(log, k, PairKey(k).quote) # {}
    /\ log[Last(EntryOrders(log, k, PairKey(k).quote))].result # "ok"

\* C5 as stated: when leg B of an entry cannot be placed after leg A was
\* accepted, the calls that follow are: cancel leg A, read the fills of the
\* base symbol, and a reduce-only market order on the opposite side for
\* exactly the filled size the venue shows for leg A if and only if that size
\* is positive; the tick ends with pending_entry holding exactly leg A.
C5_RollbackHedgesFilledSize ==
    AtTickEnd =>
        \A k \in Pairs :
            LegBFailedAfterLegA(calls, k) =>
                LET base == PairKey(k).base
                    a == Last(EntryOrders(calls, k, base))
                    b == Last(EntryOrders(calls, k, PairKey(k).quote))
                    hedged == Len(calls) >= b + 3
                IN  /\ Len(calls) >= b + 2
                    /\ calls[b + 1].op = "cancel_order" /\ calls[b + 1].symbol = base
                    /\ calls[b + 2].op = "get_filled_orders"
                    /\ calls[b + 2].symbol = base
                    /\ hedged <=> calls[b + 2].shown > 0
                    /\ hedged =>
                           /\ Len(calls) = b + 3
                           /\ calls[b + 3].op = "create_order"
                           /\ calls[b + 3].symbol = base
                           /\ calls[b + 3].reduce_only /\ ~calls[b + 3].limit
                           /\ calls[b + 3].side = OppositeSide(calls[a].side)
                           /\ calls[b + 3].size = calls[b + 2].shown
                    /\ IsSome(states[k].pending_entry)
                    /\ Len(Unwrap(states[k].pending_entry).legs) = 1
                    /\ Unwrap(states[k].pending_entry).legs[1].symbol = base
                    /\ Unwrap(states[k].pending_entry).legs[1].side = calls[a].side

Slots(state) == << state.position, state.pending_entry, state.pending_exit >>

\* C6: in the entry part of a tick an order for the quote symbol is sent only
\* after an order for the base symbol of the same pair was accepted; when
\* leg A fails, no quote order is sent and position, pending_entry and
\* pending_exit of every pair are what they were before the attempt.
C6_QuoteAfterBaseAccepted ==
    [][pc = "closes" /\ pc' = "done" =>
          \A k \in Pairs :
              LET base_orders == EntryOrders(calls', k, PairKey(k).base)
                  quote_orders == EntryOrders(calls', k, PairKey(k).quote)
              IN  /\ \A b \in quote_orders :
                         \E a \in base_orders : a < b /\ calls'[a].result = "ok"
                  /\ (base_orders # {}
                      /\ \A a \in base_orders : calls'[a].result # "ok")
                     => /\ quote_orders = {}
                        /\ \A j \in Pairs : Slots(states'[j]) = Slots(states[j])]_vars

\* a tick ends in which leg A of an entry was rejected
C6_LegARejected ==
    /\ AtTickEnd
    /\ \E k \in Pairs :
           /\ EntryOrders(calls, k, PairKey(k).base) # {}
           /\ \A a \in EntryOrders(calls, k, PairKey(k).base) : calls[a].result # "ok"

IsReduceOnlyOrder(call) == call.op = "create_order" /\ call.reduce_only

\* the reduce-only order at position i was rejected as position-missing and
\* the confirmation agreed (from the cache, or from a query that shows none)
MissingVerified(log, i) ==
    /\ IsReduceOnlyOrder(log[i]) /\ log[i].result = "missing"
    /\ (i < Len(log) /\ log[i + 1].src = "confirm_reduce_only_position_missing")
           => log[i + 1].result = "none"

\* C7 as stated: every reduce-only order of a tick is sent for a symbol that
\* the position snapshot of the tick shows, and after a verified
\* position-missing rejection no further order is sent for the leg.
C7_ReduceOnlyHasVenuePosition ==
    AtTickEnd =>
        \A i \in 1..Len(calls) :
            /\ IsReduceOnlyOrder(calls[i])
                   => tick.synced /\ present(tick.snapshots, calls[i].symbol)
            /\ MissingVerified(calls, i)
                   => \A j \in (i + 1)..Len(calls) :
                          ~(/\ calls[j].op = "create_order"
                            /\ calls[j].src = calls[i].src
                            /\ calls[j].key = calls[i].key
                            /\ calls[j].symbol = calls[i].symbol)

\* C7, amended: a lone-leg closure is sent for a symbol that the position
\* snapshot of the tick shows, against its sign and for its quantized size;
\* the other reduce-only orders (exits, exit reissues, rollback hedges) are
\* sent for a leg of their pair whether or not the snapshot shows it.  After
\* a verified position-missing rejection the function that sent the order
\* sends no further order for that pair and symbol in the tick, and a
\* pending exit it leaves behind has no unfilled leg on the symbol.
C7_ReduceOnlyLegs ==
    AtTickEnd =>
        \A i \in 1..Len(calls) :
            /\ IsReduceOnlyOrder(calls[i])
                   => calls[i].symbol \in pair_symbols(calls[i].key)
            /\ IsReduceOnlyOrder(calls[i]) /\ calls[i].src = "try_close_unhedged_leg"
                   => /\ tick.synced /\ present(tick.snapshots, calls[i].symbol)
                      /\ calls[i].side =
                             (IF Unwrap(tick.snapshots[calls[i].symbol]).sign >= 0
                              THEN Short ELSE Long)
                      /\ calls[i].size = quantize_order_size_close(
                             calls[i].symbol,
                             Unwrap(tick.snapshots[calls[i].symbol]).size, PriceMap)
            /\ MissingVerified(calls, i)
                   => /\ \A j \in (i + 1)..Len(calls) :
                             ~(/\ calls[j].op = "create_order"
                               /\ calls[j].src = calls[i].src
                               /\ calls[j].key = calls[i].key
                               /\ calls[j].symbol = calls[i].symbol)
                      /\ calls[i].src \in {"close_pair_orders", "reissue_partial_legs"}
                         /\ IsSome(states[calls[i].key].pending_exit)
                             => \A n \in 1..Len(Unwrap(states[calls[i].key].pending_exit).legs) :
                                    LET leg == Unwrap(states[calls[i].key].pending_exit).legs[n]
                                    IN  leg.symbol = calls[i].symbol
                                            => leg.filled >= leg.target

\* a tick ends in which an exit leg was rejected as position-missing, the
\* confirmation agreed, and the other leg of the exit is pending
C7_ExitLegMissingVerified ==
    /\ AtTickEnd
    /\ \E i \in 1..Len(calls) :
           /\ MissingVerified(calls, i)
           /\ calls[i].src = "close_pair_orders"
           /\ IsSome(states[calls[i].key].pending_exit)
           /\ Unwrap(states[calls[i].key].pending_exit).legs # << >>

\* C8: within one tick every Close plan is carried out before the first entry
\* order is sent, no exit order follows an entry order, and entry orders are
\* sent for at most one pair.
C8_ClosesBeforeOneEntry ==
    AtTickEnd =>
        LET entries == {i \in 1..Len(calls) : calls[i].src = "place_pair_orders"}
            exits == {i \in 1..Len(calls) : calls[i].src = "close_pair_orders"}
        IN  /\ \A i \in entries, j \in exits : j < i
            /\ \A i \in entries, p \in 1..Len(planned) :
                   planned[p].action.kind = "Close"
                       => \/ \E j \in exits : j < i /\ calls[j].key = planned[p].key
                          \/ ~IsSome(states[planned[p].key].position)
            /\ Cardinality({calls[i].key : i \in entries}) <= 1

\* a tick ends in which exit orders of one pair were followed by the entry
\* orders of another
C8_ExitThenEntry ==
    /\ AtTickEnd
    /\ \E i, j \in 1..Len(calls) :
           /\ i < j
           /\ calls[i].src = "close_pair_orders"
           /\ calls[j].src = "place_pair_orders"

\* a pending handle of the pair that was placed before this tick
HeldPending(state) ==
    \/ IsSome(state.pending_entry) /\ Unwrap(state.pending_entry).placed_at < now
    \/ IsSome(state.pending_exit) /\ Unwrap(state.pending_exit).placed_at < now

\* C9 as stated: in every tick each pair that holds a pending entry or exit
\* has its pending orders reconciled.
C9_PendingReconciledEveryTick ==
    AtTickEnd =>
        \A k \in Pairs : HeldPending(states[k]) => k \in tick.reconciled

\* C9, amended: the pending orders of a pair are reconciled in the ticks in
\* which the pair loop reaches the pair and both its symbols have closed a
\* bar, and only then; a decision is planned only for a pair that was
\* reconciled earlier in the tick, and only when the reconciliation left it
\* without pending orders.
C9_ReconciledBeforeDecision ==
    /\ \A k \in tick.reconciled :
           {PairKey(k).base, PairKey(k).quote} \subseteq tick.updated
    /\ pc = "closes" =>
           \A k \in Pairs :
               {PairKey(k).base, PairKey(k).quote} \subseteq tick.updated
                   => k \in tick.reconciled
    /\ \A p \in 1..Len(planned) : planned[p].key \in tick.reconciled
    /\ pc = "pairs" \/ (pc = "closes" /\ idx = 1) =>
           \A p \in 1..Len(planned) :
               /\ ~IsSome(states[planned[p].key].pending_entry)
               /\ ~IsSome(states[planned[p].key].pending_exit)

\* the pair loop is over, a pair that held a pending entry was reconciled and
\* promoted, and its exit is planned
C9_ReconciledThenPlanned ==
    /\ pc = "closes" /\ idx = 1
    /\ \E p \in 1..Len(planned) :
           /\ planned[p].action.kind = "Close"
           /\ \E i \in 1..Len(calls) :
                  calls[i].src = "pending_status" /\ calls[i].key = planned[p].key

\* what a finished trial was about: the handle before the call, the fill
\* records the venue showed for it, and the handle after the call
TrialDone == trial # {} /\ Unwrap(trial).phase = "done"

TrialIsExit == IsSome(Unwrap(trial).state.pending_exit)

TrialOld ==
    IF TrialIsExit THEN Unwrap(Unwrap(trial).state.pending_exit)
    ELSE Unwrap(Unwrap(trial).state.pending_entry)

TrialRecords ==
    IF TrialIsExit THEN Unwrap(Unwrap(trial).input).exit.records
    ELSE Unwrap(Unwrap(trial).input).entry.records

TrialResult == Unwrap(Unwrap(trial).result)

TrialNew ==
    IF TrialIsExit THEN TrialResult.state.pending_exit
    ELSE TrialResult.state.pending_entry

\* the fill of a leg of the old handle: what the venue shows, never less
\* than what the leg recorded before, never more than the target
TrialFill(leg) ==
    Min(Max(SumFills(TrialRecords, leg.order_id), leg.filled), leg.target)

\* the orders the call created on the symbol
TrialOrders(symbol) ==
    {j \in 1..Len(TrialResult.calls) :
        /\ TrialResult.calls[j].op = "create_order"
        /\ TrialResult.calls[j].symbol = symbol}

\* the leg was reissued and the venue accepted the order
ReissuedOk(leg) ==
    \E j \in TrialOrders(leg.symbol) :
        /\ TrialResult.calls[j].src = "reissue_partial_legs"
        /\ TrialResult.calls[j].result = "ok"

OnSymbol(legs, symbol) == SelectSeq(legs, LAMBDA l : l.symbol = symbol)

\* C10: when a leg with fill f, 0 < f < target, is reissued successfully,
\* exactly one order is created for it, and the new PendingOrders holds for
\* that leg exactly an accounting leg (old order id, target = filled = f) and
\* a residual leg (a new order id, same symbol and side, target the
\* quantized target - f, filled 0); its hedge_retry_count is the previous
\* count plus one.
C10_ReissueKeepsAccountingLeg ==
    TrialDone =>
        \A i \in 1..Len(TrialOld.legs) :
            LET leg == TrialOld.legs[i]
                f == TrialFill(leg)
                residual == reissue_quantized_size(leg, leg.target - f,
                                Unwrap(trial).prices, TrialIsExit)
            IN  0 < f /\ f < leg.target /\ ReissuedOk(leg) =>
                    /\ Cardinality(TrialOrders(leg.symbol)) = 1
                    /\ \A j \in TrialOrders(leg.symbol) :
                           /\ TrialResult.calls[j].size = residual
                           /\ TrialResult.calls[j].side = leg.side
                    /\ IsSome(TrialNew)
                    /\ Unwrap(TrialNew).hedge_retry_count
                           = TrialOld.hedge_retry_count + 1
                    /\ \E new_id \in TrialResult.used \ LegIds(TrialOld.legs) :
                           OnSymbol(Unwrap(TrialNew).legs, leg.symbol)
                               = << PendingLeg(leg.symbol, leg.order_id, f, f, leg.side),
                                    PendingLeg(leg.symbol, new_id, residual, 0,
                                               leg.side) >>

\* a call has reissued a partly filled leg of a pending entry
C10_PartialEntryLegReissued ==
    /\ TrialDone /\ ~TrialIsExit
    /\ \E i \in 1..Len(TrialOld.legs) :
           /\ 0 < TrialFill(TrialOld.legs[i])
           /\ TrialFill(TrialOld.legs[i]) < TrialOld.legs[i].target
           /\ ReissuedOk(TrialOld.legs[i])

\* the pair loop has just finished its iteration for pair k
JustReconciled(k) ==
    /\ k \in tick.reconciled
    /\ \/ pc = "pairs" /\ idx = k + 1
       \/ pc = "closes" /\ idx = 1 /\ k = Len(universe)

\* the fill query of the reconciliation of pair k showed the fill f
StatusShowed(k, f) ==
    \E i \in 1..Len(calls) :
        /\ calls[i].src = "pending_status" /\ calls[i].key = k
        /\ calls[i].op = "get_filled_orders" /\ calls[i].shown = f

\* C11 as stated: after leg B of an entry was rejected and the rollback has
\* hedged the fill of leg A, the next reconciliation of the pair, to which
\* the venue shows that same fill, clears pending_entry and sends no order:
\* the pair is left with no position and no pending orders.
C11_FailedBatchCleared ==
    \A k \in Pairs :
        JustReconciled(k) /\ rolled[k] > 0 /\ StatusShowed(k, rolled[k])
            => /\ Slots(states[k]) = << {}, {}, {} >>
               /\ \A i \in 1..Len(calls) :
                      calls[i].op = "create_order" => calls[i].key # k

(* Lone-leg closure (SpecSync) *)

\* the position reconciler has run on the drawn engine state
SyncDone == trial # {} /\ pc \in {"pairs", "done"}

LoneLegOrder(call) ==
    call.op = "create_order" /\ call.src = "try_close_unhedged_leg"

\* C12: a lone-leg closure order is sent only for a pair that had no pending
\* entry or exit and of which the venue snapshot shows exactly one leg, and
\* only when the pair's last_exit_at was unset or at least
\* UNHEDGED_CLOSE_COOLDOWN_SECS old; the order is a reduce-only market order
\* on the symbol of the present leg, on the side opposite to the leg's sign,
\* and when the venue accepts it the pair's last_exit_at is now.
C12_LoneLegClosure ==
    SyncDone =>
        \A i \in 1..Len(calls) :
            LoneLegOrder(calls[i]) =>
                LET k == calls[i].key
                    old == Unwrap(trial).states[k]
                    base == tick.snapshots[PairKey(k).base]
                    quote == tick.snapshots[PairKey(k).quote]
                    leg == IF IsSome(base) THEN Unwrap(base) ELSE Unwrap(quote)
                IN  /\ k \in Pairs
                    /\ ~IsSome(old.pending_entry) /\ ~IsSome(old.pending_exit)
                    /\ IsSome(base) # IsSome(quote)
                    /\ \/ old.last_exit_at = None
                       \/ now - old.last_exit_at >= UNHEDGED_CLOSE_COOLDOWN_SECS
                    /\ calls[i].reduce_only /\ ~calls[i].limit
                    /\ calls[i].symbol = IF IsSome(base) THEN PairKey(k).base
                                         ELSE PairKey(k).quote
                    /\ calls[i].side = IF leg.sign > 0 THEN Short ELSE Long
                    /\ calls[i].result = "ok" => states[k].last_exit_at = now

\* a lone leg was closed for a pair whose earlier exit is past the cooldown,
\* and the venue accepted the order
C12_ClosedAfterCooldown ==
    /\ SyncDone
    /\ \E i \in 1..Len(calls) :
           /\ LoneLegOrder(calls[i])
           /\ calls[i].result = "ok"
           /\ Unwrap(trial).states[calls[i].key].last_exit_at # None

(* "positions not ready" (SpecSync) *)

\* age of a pending slot when the reconciler ran (None for an empty slot)
SlotAge(slot) == IF IsSome(slot) THEN now - Unwrap(slot).placed_at ELSE None

\* slot (then) was swept or kept (now) according to its age
SweptByAge(then, slot) ==
    /\ SlotAge(then) >= 6 * order_timeout_secs => slot = {}
    /\ SlotAge(then) < 6 * order_timeout_secs => slot = then

\* C13: when get_positions fails with "positions not ready", positions_ready
\* becomes false, every pending entry or exit that is at least
\* 6 * order_timeout_secs old is cleared, every younger pending slot is kept
\* as it was, and the decision of no pair in that tick is an Open.
C13_NotReadySweep ==
    SyncDone /\ Unwrap(trial).answer = "not_ready" =>
        /\ ~positions_ready
        /\ \A k \in Pairs :
               /\ SweptByAge(Unwrap(trial).states[k].pending_entry,
                             states[k].pending_entry)
               /\ SweptByAge(Unwrap(trial).states[k].pending_exit,
                             states[k].pending_exit)
        /\ \A i \in 1..Len(planned) : planned[i].action.kind # "Open"

\* positions were ready before, the sweep cleared the old entry of one pair,
\* and the statistics of that pair then asked for an entry
C13_SweptThenSignalled ==
    /\ SyncDone /\ pc = "done"
    /\ Unwrap(trial).answer = "not_ready"
    /\ Unwrap(trial).positions_ready
    /\ IsSome(Unwrap(trial).states[idx].pending_entry)
    /\ states[idx].pending_entry = {}
    /\ \E sig \in Unwrap(trial).sig : sig.eligible /\ sig.enough /\ sig.enter

(* Entry preconditions (Spec) *)

\* an entry order of pair k is in the log of the tick
EntrySent(k) ==
    \E i \in 1..Len(calls) :
        \/ IsEntryOrder(calls[i], k, PairKey(k).base)
        \/ IsEntryOrder(calls[i], k, PairKey(k).quote)

\* C14: no entry order is sent in a tick in which maintenance is upcoming, or
\* positions are not ready, or the venue snapshot of the tick holds a position
\* on the base or the quote symbol of the pair.
C14_NoEntryWhenBlocked ==
    AtTickEnd =>
        \A k \in Pairs :
            EntrySent(k) =>
                /\ ~tick.maintenance_block_entries
                /\ positions_ready
                /\ ~present(tick.snapshots, PairKey(k).base)
                /\ ~present(tick.snapshots, PairKey(k).quote)

\* the statistics of a pair asked for an entry while orders could be sent, in
\* a tick with upcoming maintenance, and the tick ended without an entry
C14_SignalledUnderMaintenance ==
    /\ AtTickEnd
    /\ ~cfg.dry_run /\ ~cfg.observe_only
    /\ tick.maintenance_block_entries /\ positions_ready
    /\ \E k \in tick.signalled :
           /\ ~EntrySent(k)
           /\ states[k] = NewPairState
           /\ \A sym \in Symbols : ~present(tick.snapshots, sym)

(* Entry and exit rules (SpecDecision) *)

DecisionDone == pc = "done" /\ trial # {} /\ Unwrap(trial).result # {}

DecisionStats == Unwrap(trial).stats

DecisionResult == Unwrap(Unwrap(trial).result)

InCooldown(state) ==
    state.last_exit_at # None /\ now - state.last_exit_at < cooldown_secs

\* C15: while less than cooldown_secs have passed since the pair's
\* last_exit_at, should_enter is false whatever z, std and the net funding
\* are, and the decision for the pair is not an Open.
C15_CooldownBlocksEntry ==
    DecisionDone /\ InCooldown(states[idx]) =>
        /\ ~DecisionResult.should_enter
        /\ \A i \in 1..Len(planned) : planned[i].action.kind # "Open"

\* the pair is inside the cooldown, free and eligible, and z, std and the net
\* funding satisfy every other condition of should_enter
C15_SignalInsideCooldown ==
    /\ DecisionDone /\ InCooldown(states[idx])
    /\ ~IsSome(states[idx].position) /\ ~states[idx].position_guard
    /\ DecisionStats.eligible /\ DecisionStats.enough
    /\ IsSome(DecisionStats.z) /\ enter_conditions(DecisionStats)

\* the exit conditions as conditions on the statistics of the tick
ForceCloseHolds == DecisionStats.elapsed >= force_close_secs

StopLossHolds ==
    IsSome(DecisionStats.z) /\ Abs(Unwrap(DecisionStats.z)) >= stop_loss_z

ExitZHolds ==
    IsSome(DecisionStats.z) /\ exit_z > 0 /\ Abs(Unwrap(DecisionStats.z)) <= exit_z

MaxLossHolds ==
    /\ IsSome(DecisionStats.pnl)
    /\ Unwrap(DecisionStats.pnl) <= 0 - risk_budget * max_loss_r_mult

RiskBudgetHolds ==
    IsSome(DecisionStats.pnl) /\ Unwrap(DecisionStats.pnl) >= risk_budget

ExpectedValueHolds ==
    /\ IsSome(DecisionStats.z) /\ IsSome(DecisionStats.pnl)
    /\ Unwrap(DecisionStats.pnl) > 0 /\ DecisionStats.std > 0
    /\ DecisionStats.half_life > 0
    /\ Abs(Unwrap(DecisionStats.z)) * DecisionStats.gain * DecisionStats.std
           <= cost_ratio * 10

\* the reasons of exit_reason that match, in its order, from stop-loss on
FirstOfExitReason(reason) ==
    IF StopLossHolds THEN reason = "stop_loss_z"
    ELSE IF ExitZHolds THEN reason = "exit_z"
    ELSE IF MaxLossHolds THEN reason = "max_loss_r"
    ELSE IF RiskBudgetHolds THEN reason = "risk_budget"
    ELSE ExpectedValueHolds /\ reason = "expected_value"

ClosePlanned ==
    /\ DecisionDone
    /\ \E i \in 1..Len(planned) : planned[i].action.kind = "Close"

\* C16 as stated: a Close carries the first matching reason in the order
\* force-close, stop-loss, exit_z, risk budget or max loss, expected value,
\* loss of eligibility.
C16_FirstReasonInOrder ==
    ClosePlanned =>
        IF ForceCloseHolds THEN DecisionResult.reason = "force_close"
        ELSE IF StopLossHolds \/ ExitZHolds \/ MaxLossHolds \/ RiskBudgetHolds
                \/ ExpectedValueHolds
        THEN FirstOfExitReason(DecisionResult.reason)
        ELSE ~DecisionStats.eligible /\ DecisionResult.reason = "ineligible"

\* C16 (amended): a Close of a pair whose position is past force_close_secs
\* is a forced Close with reason force_close; otherwise a Close of a pair
\* that is not eligible has the reason ineligible whichever other conditions
\* hold, and a Close of an eligible pair has the first matching reason in
\* the order stop-loss, exit_z, max loss, risk budget, expected value.
C16_ReasonByEligibility ==
    ClosePlanned =>
        IF ForceCloseHolds
        THEN DecisionResult.reason = "force_close" /\ planned[1].action.force
        ELSE /\ ~planned[1].action.force
             /\ IF ~DecisionStats.eligible
                THEN DecisionResult.reason = "ineligible"
                ELSE /\ DecisionStats.enough
                     /\ FirstOfExitReason(DecisionResult.reason)

\* a position is closed as ineligible while the stop-loss condition holds
C16_IneligibleDespiteStopLoss ==
    /\ ClosePlanned
    /\ ~ForceCloseHolds /\ StopLossHolds /\ ~DecisionStats.eligible
    /\ DecisionResult.reason = "ineligible"

(* Entry arbitration (SpecArbitration) *)

ArbitrationDone == pc = "done" /\ trial # {} /\ Unwrap(trial).phase = "done"

\* the symbols of the pairs that are active when the arbitration runs
ActiveNow == UNION {pair_symbols(k) : k \in {j \in Pairs : is_active(states[j])}}

\* the pairs with an Open plan that share no symbol with an active pair
Candidates ==
    {k \in Pairs :
        /\ \E i \in 1..Len(planned) :
               planned[i].key = k /\ planned[i].action.kind = "Open"
        /\ pair_symbols(k) \cap ActiveNow = {}}

RankOf(k) == Unwrap(trial).rank[k]

\* (net_funding, score, liquidity, |z|) of j is below that of k
KeyBelow(j, k) ==
    LET a == RankOf(j)
        b == RankOf(k)
    IN  \/ a.funding < b.funding
        \/ a.funding = b.funding /\ a.score < b.score
        \/ a.funding = b.funding /\ a.score = b.score /\ a.liquidity < b.liquidity
        \/ /\ a.funding = b.funding /\ a.score = b.score
           /\ a.liquidity = b.liquidity /\ a.abs_z < b.abs_z

\* candidates other than k that the sort by score may put ahead of k
Ahead(k, strictly) ==
    {j \in Candidates \ {k} :
        IF strictly THEN RankOf(j).score > RankOf(k).score
        ELSE RankOf(j).score >= RankOf(k).score}

ShortlistSize == IF Unwrap(trial).limit >= 1 THEN Unwrap(trial).limit ELSE 1

OpenPlans(k) ==
    {planned[i].action : i \in {j \in 1..Len(planned) :
        planned[j].key = k /\ planned[j].action.kind = "Open"}}

\* C18: the entry orders of a pair are those of its Open plan: the base leg
\* is Long and the quote leg Short for LongSpread, the base leg Short and the
\* quote leg Long for ShortSpread, and the plan's direction is ShortSpread
\* exactly when the z-score it was decided on is positive.
C18_EntryLegSides ==
    AtTickEnd =>
        \A k \in Pairs :
            /\ \A action \in OpenPlans(k) :
                   action.direction = ShortSpread <=> action.z = "pos"
            /\ EntrySent(k) =>
                   \E action \in OpenPlans(k) :
                       /\ \A i \in EntryOrders(calls, k, PairKey(k).base) :
                              calls[i].side = IF action.direction = LongSpread
                                              THEN Long ELSE Short
                       /\ \A i \in EntryOrders(calls, k, PairKey(k).quote) :
                              calls[i].side = IF action.direction = LongSpread
                                              THEN Short ELSE Long

\* both legs of a LongSpread entry, decided on a negative z, were accepted
C18_LongSpreadPlaced ==
    /\ AtTickEnd
    /\ \E k \in Pairs :
           /\ \E action \in OpenPlans(k) :
                  action.direction = LongSpread /\ action.z = "neg"
           /\ \E i \in EntryOrders(calls, k, PairKey(k).base) :
                  calls[i].result = "ok"
           /\ \E i \in EntryOrders(calls, k, PairKey(k).quote) :
                  calls[i].result = "ok"

(* Reissue without a price (SpecReconcile) *)

\* the call was handed a positive price for the symbol
TrialPriced(symbol) ==
    /\ IsSome(Unwrap(trial).prices[symbol])
    /\ Unwrap(Unwrap(trial).prices[symbol]).price > 0

\* the call reconciled a pending entry whose status it could read, and its
\* retry count still asks for limit orders
TrialLimitReissue ==
    /\ TrialDone /\ ~TrialIsExit
    /\ Unwrap(Unwrap(trial).input).entry.kind = "ok"
    /\ ~(/\ cfg.entry_partial_fill_max_retries > 0
         /\ TrialOld.hedge_retry_count + 1 > cfg.entry_partial_fill_max_retries)

\* C19: when a partly filled entry leg is due for a reissue as a limit order
\* and the price map has no positive price for its symbol, no order is
\* created on the symbol and the new PendingOrders carries the leg with its
\* order id and target and with the fill the venue reported.
C19_NoPriceKeepsLeg ==
    TrialLimitReissue =>
        \A i \in 1..Len(TrialOld.legs) :
            LET leg == TrialOld.legs[i]
                f == TrialFill(leg)
            IN  0 < f /\ f < leg.target /\ ~TrialPriced(leg.symbol) =>
                    /\ TrialOrders(leg.symbol) = {}
                    /\ IsSome(TrialNew)
                    /\ OnSymbol(Unwrap(TrialNew).legs, leg.symbol)
                           = << [leg EXCEPT !.filled = f] >>

\* a leg without a price was kept with a fill the venue newly reported while
\* the other leg of the entry was reissued
C19_KeptBesideReissued ==
    /\ TrialLimitReissue
    /\ \E i, j \in 1..Len(TrialOld.legs) :
           /\ ~TrialPriced(TrialOld.legs[i].symbol)
           /\ TrialOld.legs[i].filled < TrialFill(TrialOld.legs[i])
           /\ TrialFill(TrialOld.legs[i]) < TrialOld.legs[i].target
           /\ ReissuedOk(TrialOld.legs[j])

(* Spread history (SpecSpread) *)

\* the spread_history is the last n of the spreads pushed so far
HoldsLatest(t, n) ==
    /\ Len(t.spread_history) = Min(Len(t.pushed), n)
    /\ t.spread_history
           = SubSeq(t.pushed, Len(t.pushed) - Len(t.spread_history) + 1,
                    Len(t.pushed))

\* C20 as stated: after any sequence of spread updates spread_history holds
\* the latest values pushed, at most metrics_window of them.
C20_AtMostWindow ==
    \A t \in trial : HoldsLatest(t, t.window)

\* C20 (amended): after any sequence of spread updates spread_history holds
\* the latest values pushed, at most max(metrics_window, 1) of them: the
\* oldest value leaves first, and the value pushed last is always kept.
C20_LatestOfWindow ==
    \A t \in trial : HoldsLatest(t, Max(t.window, 1))

\* with metrics_window = 0 the history holds the value pushed last, earlier
\* ones evicted
C20_ZeroWindowKeepsOne ==
    \E t \in trial :
        t.window = 0 /\ Len(t.pushed) >= 2 /\ Len(t.spread_history) = 1

\* a call of the size quantizers with a positive step and a size that is
\* at least min_order, and its two results
Quantized ==
    { t \in trial : t.sizes # {} /\ t.step > 0
                    /\ (t.min_order # None => t.size >= t.min_order) }

\* the least size the quantizers return: ceil(min_order / step) steps, one
\* step at least
SizeFloor(t) ==
    t.step * Max(IF t.min_order # None THEN CeilDiv(t.min_order, t.step) ELSE 0,
                 1)

\* C21 as stated: for every size s >= min_order and every step t > 0,
\* rounding down gives a multiple of t in [max(min_order, t), s] and rounding
\* up gives a multiple of t in [s, s + t).
C21_RoundTrip ==
    \A t \in Quantized :
        LET q == Unwrap(t.sizes)
        IN  /\ q.down % t.step = 0
            /\ q.down >= Max(t.min_order, t.step) /\ q.down <= t.size
            /\ q.up % t.step = 0
            /\ q.up >= t.size /\ q.up < t.size + t.step

\* C21 (amended): for every size s >= min_order and every step t > 0, with
\* f = t * max(ceil(min_order / t), 1): rounding down gives a multiple of t
\* that is at least max(min_order, t); it lies in (s - t, s] when s >= f and
\* is f, above s, when s < f.  Rounding up gives a multiple of t that is at
\* least s and at least max(min_order, t); it is below s + t when s > 0 and
\* is t when s = 0.
C21_RoundedSizes ==
    \A t \in Quantized :
        LET q == Unwrap(t.sizes)
        IN  /\ q.down % t.step = 0
            /\ q.down >= Max(t.min_order, t.step)
            /\ t.size >= SizeFloor(t)
                   => q.down <= t.size /\ q.down > t.size - t.step
            /\ t.size < SizeFloor(t) => q.down = SizeFloor(t)
            /\ q.up % t.step = 0
            /\ q.up >= t.size /\ q.up >= Max(t.min_order, t.step)
            /\ t.size > 0 => q.up < t.size + t.step
            /\ t.size = 0 => q.up = t.step

\* a size that is at least min_order and at least one step is rounded down
\* to more than itself: min_order is not a multiple of the step
C21_RoundedDownAboveSize ==
    \E t \in Quantized :
        /\ t.min_order # None /\ t.size >= t.min_order /\ t.size >= t.step
        /\ Unwrap(t.sizes).down > t.size

\* a call of round_price_by_tick with a positive tick size, and its results
\* for the long and the short side
Rounded == { t \in trial : t.rounded # {} /\ t.step > 0 }

\* C22 as stated: for every price p and tick size k > 0, the long-side
\* rounded price r satisfies r <= p < r + k, the short-side rounded price r
\* satisfies r >= p > r - k, and both rounded prices are at least k.
C22_RoundedWithinOneTick ==
    \A t \in Rounded :
        LET r == Unwrap(t.rounded)
        IN  /\ r.long <= t.price /\ t.price < r.long + t.step
            /\ r.short >= t.price /\ t.price > r.short - t.step
            /\ r.long >= t.step /\ r.short >= t.step

\* C22 (amended): for every price p >= 0 and tick size k > 0, both rounded
\* prices are multiples of k and at least k; the long-side price r satisfies
\* p < r + k, and r <= p when p >= k, while r = k > p when p < k; the
\* short-side price r satisfies r >= p, and p > r - k when p > 0, while
\* r = k when p = 0.
C22_RoundedPrices ==
    \A t \in Rounded :
        LET r == Unwrap(t.rounded)
        IN  /\ r.long % t.step = 0 /\ r.short % t.step = 0
            /\ r.long >= t.step /\ r.short >= t.step
            /\ t.price < r.long + t.step
            /\ t.price >= t.step => r.long <= t.price
            /\ t.price < t.step => r.long = t.step
            /\ r.short >= t.price
            /\ t.price > 0 => t.price > r.short - t.step
            /\ t.price = 0 => r.short = t.step

\* a positive price below one tick is rounded up to one tick on the long side
C22_LongRaisedToOneTick ==
    \E t \in Rounded :
        /\ t.price > 0 /\ t.price < t.step
        /\ Unwrap(t.rounded).long = t.step

\* the call ended at the `?` of a failed venue query
TrialFailed == TrialDone /\ TrialResult.outcome = "err"

\* C23 as stated: if a venue query fails while a pair's pending orders are
\* being reconciled, the pair's pending_entry and pending_exit are the same
\* after the failed reconciliation as before it.
C23_FailedQueryKeepsPending ==
    TrialFailed =>
        /\ TrialResult.state.pending_entry = Unwrap(trial).state.pending_entry
        /\ TrialResult.state.pending_exit = Unwrap(trial).state.pending_exit

(* Lone-leg closure and the other pairs of the universe (SpecSync) *)

\* C24 as stated: position reconciliation never sends a lone-leg closure for
\* a symbol that is a leg of another universe pair which has a pending entry
\* or exit, or whose two legs are both on the venue with opposite signs.
C24_NoClosureOnSharedLeg ==
    SyncDone =>
        \A i \in 1..Len(calls) :
            LoneLegOrder(calls[i]) =>
                \A k \in Pairs \ {calls[i].key} :
                    calls[i].symbol \in pair_symbols(k) =>
                        /\ ~has_pending(Unwrap(trial).states[k])
                        /\ ~opposite_signs(tick.snapshots, k)

(* Exit retries (SpecReconcile) *)

\* the venue's answer to the status queries of the latest call
TrialAnswer ==
    IF TrialIsExit THEN Unwrap(Unwrap(trial).input).exit
    ELSE Unwrap(Unwrap(trial).input).entry

\* the order status the latest call read for the handle it reconciled
TrialStatus == pending_status(TrialOld, TrialAnswer)

\* the handle the latest call reconciled, with the fills it read applied
TrialUpdated == update_pending_fills(TrialOld, TrialStatus.fills)

\* the latest call read the status of a pending exit that is not complete
\* and is due for a reissue: an order shows a fill, or the handle is
\* order_timeout_secs old, or none of its orders is open any more
ExitReissueDue ==
    /\ TrialDone /\ TrialIsExit
    /\ Unwrap(Unwrap(trial).input).exit.kind = "ok"
    /\ ~(TrialStatus.open_remaining = 0
         /\ all_filled(TrialUpdated, TrialStatus.fills))
    /\ \/ any_filled(filled_by_leg(TrialUpdated, TrialStatus.fills))
       \/ elapsed(TrialOld.placed_at, Unwrap(trial).now)
              >= Max(order_timeout_secs, 1)
       \/ TrialStatus.open_remaining = 0

TrialSent(op) ==
    \E j \in 1..Len(TrialResult.calls) : TrialResult.calls[j].op = op

\* C25: a pending exit is reissued at most 3 times, partial-fill reissues and
\* timeout reissues counted together.  hedge_retry_count counts the reissues
\* of a handle: a reconciliation that is due for a reissue and finds it
\* below 3 leaves a handle with the count one higher, and does not call
\* close_all_positions; one that finds it at 3 calls close_all_positions,
\* sends no order and clears pending_exit.  No other reconciliation of a
\* pending exit sends an order.
C25_ExitRetriesBounded ==
    /\ MAX_EXIT_RETRIES = 3
    /\ TrialDone /\ TrialIsExit =>
           /\ TrialSent("create_order") =>
                  ExitReissueDue /\ TrialOld.hedge_retry_count < MAX_EXIT_RETRIES
           /\ ExitReissueDue /\ TrialOld.hedge_retry_count < MAX_EXIT_RETRIES =>
                  /\ ~TrialSent("close_all_positions")
                  /\ \A p \in TrialNew :
                         p.hedge_retry_count = TrialOld.hedge_retry_count + 1
           /\ ExitReissueDue /\ TrialOld.hedge_retry_count >= MAX_EXIT_RETRIES =>
                  /\ TrialSent("close_all_positions")
                  /\ ~TrialSent("create_order")
                  /\ TrialNew = {}

\* a pending exit that was reissued three times shows a partial fill again:
\* close_all_positions is called and the slot is cleared
C25_FourthReissueClosesAll ==
    /\ ExitReissueDue
    /\ TrialOld.hedge_retry_count = 3
    /\ any_filled(filled_by_leg(TrialUpdated, TrialStatus.fills))
    /\ TrialSent("close_all_positions")
    /\ TrialNew = {}

(* Partial-fill reissue of a pending entry (SpecEntryRetry) *)

\* the orders by which the latest call reissued legs
TrialReissues ==
    {j \in 1..Len(TrialResult.calls) :
        /\ TrialResult.calls[j].op = "create_order"
        /\ TrialResult.calls[j].src = "reissue_partial_legs"}

\* C26 as stated: the k-th partial-fill reissue of a pending entry, k being
\* hedge_retry_count + 1, places the residual as a limit order when
\* k <= entry_partial_fill_max_retries and as a market order when
\* k > entry_partial_fill_max_retries.
C26_LimitUpToMaxRetries ==
    TrialDone /\ ~TrialIsExit =>
        \A j \in TrialReissues :
            TrialResult.calls[j].limit
                <=> TrialOld.hedge_retry_count + 1
                        <= cfg.entry_partial_fill_max_retries

\* C26 (amended): the k-th partial-fill reissue of a pending entry, k being
\* hedge_retry_count + 1, places the residual as a market order when
\* entry_partial_fill_max_retries > 0 and k > entry_partial_fill_max_retries,
\* and as a limit order otherwise: with entry_partial_fill_max_retries = 0
\* every reissue is a limit order.  The handle it leaves has
\* hedge_retry_count = k.
C26_MarketPastPositiveMaxRetries ==
    TrialDone /\ ~TrialIsExit =>
        /\ \A j \in TrialReissues :
               /\ ~TrialResult.calls[j].limit
                      <=> /\ cfg.entry_partial_fill_max_retries > 0
                          /\ TrialOld.hedge_retry_count + 1
                                 > cfg.entry_partial_fill_max_retries
               /\ ~TrialResult.calls[j].reduce_only
        /\ TrialReissues # {} =>
               \A p \in TrialNew :
                   p.hedge_retry_count = TrialOld.hedge_retry_count + 1

\* with entry_partial_fill_max_retries = 0 the second reissue of a pending
\* entry is sent as a limit order
C26_ZeroMaxRetriesStaysLimit ==
    /\ TrialDone /\ ~TrialIsExit
    /\ cfg.entry_partial_fill_max_retries = 0
    /\ TrialOld.hedge_retry_count = 1
    /\ \E j \in TrialReissues : TrialResult.calls[j].limit

(* Reissue of exit legs (SpecReconcile) *)

\* the orders the latest call created
TrialCreated ==
    {j \in 1..Len(TrialResult.calls) : TrialResult.calls[j].op = "create_order"}

\* the legs of the reconciled handle that are not filled to their target
TrialUnfilled ==
    {i \in 1..Len(TrialOld.legs) : TrialFill(TrialOld.legs[i]) < TrialOld.legs[i].target}

\* C27: every order that reissues an exit leg, after a partial fill or after
\* a timeout, is a market order with reduce-only set, on the same symbol and
\* side as the leg it replaces: the orders of a reconciliation of a pending
\* exit are such orders, one at most for each leg that is not filled.
C27_ExitReissueShape ==
    TrialDone /\ TrialIsExit =>
        /\ \A j \in TrialCreated :
               /\ ~TrialResult.calls[j].limit
               /\ TrialResult.calls[j].reduce_only
               /\ \E i \in TrialUnfilled :
                      /\ TrialOld.legs[i].symbol = TrialResult.calls[j].symbol
                      /\ TrialOld.legs[i].side = TrialResult.calls[j].side
        /\ \A sym \in Symbols :
               Cardinality({j \in TrialCreated : TrialResult.calls[j].symbol = sym})
                   <= Cardinality({i \in TrialUnfilled :
                                      TrialOld.legs[i].symbol = sym})

\* the venue accepted the order that reissues a partly filled exit leg
C27_ReissuedAfterPartialFill ==
    /\ TrialDone /\ TrialIsExit
    /\ \E j \in TrialCreated :
           /\ TrialResult.calls[j].src = "reissue_partial_legs"
           /\ TrialResult.calls[j].result = "ok"
           /\ \E i \in TrialUnfilled :
                  /\ TrialFill(TrialOld.legs[i]) > 0
                  /\ TrialOld.legs[i].symbol = TrialResult.calls[j].symbol

(* Recorded fills (SpecReconcile) *)

\* the fill the venue reported to the latest call for the order
TrialReported(order_id) == SumFills(TrialRecords, order_id)

\* the legs of the handle the latest call left
TrialNewLegs == IF TrialNew = {} THEN << >> ELSE Unwrap(TrialNew).legs

\* C28: for every pending leg the recorded fill never decreases, always lies
\* between 0 and the leg's target, and after each update equals
\* min(target, max(previous fill, reported fill)).  Whatever fills a handle
\* recorded before, update_pending_fills leaves each leg with that fill, and
\* every leg of the handle the reconciliation leaves has a fill within its
\* target that is not below the fill recorded before for its order.
C28_RecordedFill ==
    TrialDone /\ TrialAnswer.kind = "ok" =>
        /\ \A i \in 1..Len(TrialOld.legs) :
               LET leg == TrialOld.legs[i]
                   updated == TrialUpdated.legs[i]
               IN  /\ updated.filled
                          = Min(leg.target,
                                Max(leg.filled, TrialReported(leg.order_id)))
                   /\ updated.filled >= leg.filled
                   /\ updated.filled >= 0 /\ updated.filled <= updated.target
                   /\ updated.target = leg.target
        /\ \A n \in 1..Len(TrialNewLegs) :
               /\ TrialNewLegs[n].filled >= 0
               /\ TrialNewLegs[n].filled <= TrialNewLegs[n].target
               /\ \A i \in 1..Len(TrialOld.legs) :
                      TrialOld.legs[i].order_id = TrialNewLegs[n].order_id
                          => TrialNewLegs[n].filled >= TrialOld.legs[i].filled

\* the venue reports no fill for an order of which a fill of 1 is recorded:
\* the recorded fill stays 1, and the handle left behind carries it
C28_LowerReportKeepsFill ==
    /\ TrialDone
    /\ \E i \in 1..Len(TrialOld.legs) :
           /\ TrialOld.legs[i].filled = 1
           /\ TrialReported(TrialOld.legs[i].order_id) = 0
           /\ TrialUpdated.legs[i].filled = 1
           /\ \E n \in 1..Len(TrialNewLegs) :
                  /\ TrialNewLegs[n].order_id = TrialOld.legs[i].order_id
                  /\ TrialNewLegs[n].filled = 1

(* Promotion of a pending entry (SpecReconcile) *)

\* the latest call turned the pending entry into a position
Promoted ==
    /\ TrialDone /\ ~TrialIsExit
    /\ IsSome(TrialResult.state.position)
    /\ ~IsSome(Unwrap(trial).state.position)

\* the handle holds a leg on the symbol
HoldsLeg(pending, symbol) ==
    \E i \in 1..Len(pending.legs) : pending.legs[i].symbol = symbol

EntryTimedOut ==
    /\ TrialDone /\ ~TrialIsExit
    /\ Unwrap(Unwrap(trial).input).entry.kind = "ok"
    /\ elapsed(TrialOld.placed_at, Unwrap(trial).now) >= Max(order_timeout_secs, 1)
    /\ \E i \in 1..Len(TrialOld.legs) :
           TrialFill(TrialOld.legs[i]) < TrialOld.legs[i].target

\* the legs of the reconciled handle that have a positive fill
TrialFilledLegs ==
    {i \in 1..Len(TrialOld.legs) : TrialFill(TrialOld.legs[i]) > 0}

\* the call sent a reduce-only order of the leg's filled size on its symbol,
\* on the opposite side
Hedged(leg) ==
    \E j \in TrialCreated :
        /\ TrialResult.calls[j].reduce_only
        /\ TrialResult.calls[j].symbol = leg.symbol
        /\ TrialResult.calls[j].side = OppositeSide(leg.side)
        /\ TrialResult.calls[j].size = TrialFill(leg)

TrialRejected ==
    {j \in TrialReissues :
        /\ TrialResult.calls[j].reduce_only
        /\ TrialResult.calls[j].result = "missing"}

\* the call after order j is the position query of the confirmation
ConfirmQueried(j) ==
    /\ j < Len(TrialResult.calls)
    /\ TrialResult.calls[j + 1].op = "get_positions"
    /\ TrialResult.calls[j + 1].src = "confirm_reduce_only_position_missing"
    /\ TrialResult.calls[j + 1].symbol = TrialResult.calls[j].symbol

\* the handle the latest call left counts the leg on the symbol as filled
LegCompleted(symbol) ==
    \E n \in 1..Len(TrialNewLegs) :
        /\ TrialNewLegs[n].symbol = symbol
        /\ TrialNewLegs[n].filled = TrialNewLegs[n].target

\* the handle the latest call left keeps the leg on the symbol open, under
\* its order and with the fill read for it, below its target
LegKeptOpen(symbol) ==
    \E n \in 1..Len(TrialNewLegs) :
        \E i \in TrialUnfilled :
            /\ TrialOld.legs[i].symbol = symbol
            /\ TrialNewLegs[n].symbol = symbol
            /\ TrialNewLegs[n].order_id = TrialOld.legs[i].order_id
            /\ TrialNewLegs[n].target = TrialOld.legs[i].target
            /\ TrialNewLegs[n].filled < TrialNewLegs[n].target

\* the engine's cache shows no position on the symbol and is ready
CacheShowsNone(symbol) ==
    /\ ~cached_has_position(symbol, Unwrap(trial).cache.open_positions)
    /\ Unwrap(trial).cache.positions_ready

one_leg_only(snapshots, k) ==
    present(snapshots, PairKey(k).base) # present(snapshots, PairKey(k).quote)

\* the snapshot shows both legs of the pair, with signs that are not opposite
both_legs_mismatched(snapshots, k) ==
    /\ present(snapshots, PairKey(k).base)
    /\ present(snapshots, PairKey(k).quote)
    /\ ~opposite_signs(snapshots, k)

TrialSettled == trial # {} /\ Unwrap(trial).phase = "settled"

\* C33 as stated: for each leg of an entry, the total size filled on the
\* venue over the original order and the order that reissues its residual
\* never exceeds the leg's original target, also when the original order
\* fills further between the fill query and its cancellation.
C33_FilledWithinTarget ==
    TrialSettled =>
        \A v \in Unwrap(trial).venue :
            v.at_cancel + v.reissued
                <= Unwrap(Unwrap(trial).state.pending_entry).legs[v.leg].target

(* A reconciliation without a new fill (SpecReconcile) *)

\* the venue reports for no order of the handle more than the handle records
NoNewFill ==
    \A i \in 1..Len(TrialOld.legs) :
        TrialReported(TrialOld.legs[i].order_id) <= TrialOld.legs[i].filled

\* the handle is one that reissue_partial_legs builds after a partial fill:
\* a leg that accounts for the fill of the replaced order, its target equal
\* to its fill, beside the unfilled leg of the order that replaced it
FromPartialFillReissue(pending) ==
    /\ pending.hedge_retry_count >= 1
    /\ \E i, n \in 1..Len(pending.legs) :
           /\ pending.legs[i].filled > 0
           /\ pending.legs[i].target = pending.legs[i].filled
           /\ pending.legs[n].symbol = pending.legs[i].symbol
           /\ pending.legs[n].order_id # pending.legs[i].order_id
           /\ pending.legs[n].filled = 0

\* C34 as stated, for a pending entry that came out of a partial-fill
\* reissue: a reconciliation that observes no new fill since the previous
\* reconciliation, and before the order timeout has elapsed, cancels no
\* order, creates no order and leaves hedge_retry_count unchanged.
C34_NoNewFillNoOrders ==
    /\ TrialDone /\ ~TrialIsExit
    /\ FromPartialFillReissue(TrialOld)
    /\ TrialAnswer.kind = "ok"
    /\ NoNewFill
    /\ elapsed(TrialOld.placed_at, Unwrap(trial).now) < Max(order_timeout_secs, 1)
    => /\ ~TrialSent("cancel_orders")
       /\ ~TrialSent("create_order")
       /\ \A p \in TrialNew : p.hedge_retry_count = TrialOld.hedge_retry_count

(* last_exit_at when a position is cleared (SpecSync) *)

\* C35 as stated, for the position reconciler: every transition of a pair
\* from position set to position empty sets last_exit_at in the same tick,
\* also when the position is cleared by position reconciliation.  The pairs
\* that had a position before the reconciler ran and have none after it, and
\* after the decision of the tick, have last_exit_at = now.
C35_ClearedPositionSetsLastExit ==
    SyncDone =>
        \A k \in Pairs :
            /\ IsSome(Unwrap(trial).states[k].position)
            /\ ~IsSome(states[k].position)
            => states[k].last_exit_at = now

(* Startup force-close (SpecStartup) *)

StartupSent(op) == {i \in 1..Len(calls) : calls[i].op = op}

StartupReturned == trial # {} /\ Unwrap(trial).phase = "returned"

\* what holds of the connector calls of force_close_on_startup at any time,
\* with at most `limit` calls of close_all_positions
StartupSafe(limit) ==
    /\ \A i \in StartupSent("close_all_positions") :
           \E j \in StartupSent("cancel_all_orders") : j < i
    /\ Cardinality(StartupSent("close_all_positions")) <= limit
    /\ \A i \in StartupSent("get_positions") :
           calls[i].result = "none" => i = Len(calls) /\ StartupReturned
    /\ Unwrap(trial).alerted =>
           /\ StartupReturned
           /\ calls[Len(calls)].op = "get_positions"
           /\ calls[Len(calls)].result = "some"
           /\ calls[Len(calls) - 1].op = "close_all_positions"
    /\ /\ StartupReturned
       /\ Len(calls) > 0
       /\ Cardinality(StartupSent("close_all_positions")) = limit
       /\ calls[Len(calls)].result = "some"
       => Unwrap(trial).alerted

\* C36 as stated: startup force-close calls cancel_all_orders before any
\* close_all_positions, calls close_all_positions at most
\* startup_force_close_attempts times, stops as soon as a position query
\* returns no positions, always terminates, and emits the operator alert
\* when positions are still reported after the last attempt.
C36_AtMostConfiguredAttempts ==
    /\ [](StartupSafe(Unwrap(trial).startup_force_close_attempts))
    /\ <>StartupReturned

\* C36 (amended): startup force-close calls cancel_all_orders before any
\* close_all_positions, calls close_all_positions at most
\* max(startup_force_close_attempts, 1) times, stops as soon as a position
\* query returns no positions, always terminates, and emits the operator
\* alert when the position query after the last attempt still reports
\* positions.
C36_AtMostOneOrConfiguredAttempts ==
    /\ [](StartupSafe(IF Unwrap(trial).startup_force_close_attempts < 1 THEN 1
                      ELSE Unwrap(trial).startup_force_close_attempts))
    /\ <>StartupReturned

\* with startup_force_close_attempts = 0, close_all_positions was called
\* once and the alert was sent
C36_ZeroAttemptsClosesOnce ==
    /\ StartupReturned
    /\ Unwrap(trial).startup_force_close_attempts = 0
    /\ Cardinality(StartupSent("close_all_positions")) = 1
    /\ Unwrap(trial).alerted

(* dry_run and observe_only (Spec) *)

\* the connector calls that place, cancel or close
TradingOps ==
    {"create_order", "cancel_orders", "cancel_all_orders", "close_all_positions"}

\* C37: when dry_run or observe_only is set, no sequence of ticks calls
\* create_order, cancel_orders, cancel_all_orders or close_all_positions on
\* the connector, and pending_entry and pending_exit stay empty for every
\* pair.
C37_NoTradingWhenDryOrObserve ==
    cfg.dry_run \/ cfg.observe_only =>
        /\ \A i \in 1..Len(calls) : calls[i].op \notin TradingOps
        /\ \A k \in Pairs : ~has_pending(states[k])

\* under dry_run a tick has set the position of a pair from an entry signal
\* while the venue shows a lone leg, and has sent nothing but queries
C37_DryRunEntryBesideLoneLeg ==
    /\ AtTickEnd /\ cfg.dry_run
    /\ \E k \in Pairs : IsSome(states[k].position)
    /\ \E s \in Symbols : present(tick.snapshots, s)
    /\ Len(calls) > 0
    /\ \A i \in 1..Len(calls) : calls[i].op \notin TradingOps

(* Sizes of entry and exit orders (SpecPlace) *)

\* sent is the least multiple of step that is not below size
RoundedUpTo(sent, size, step) ==
    /\ sent % step = 0
    /\ sent >= size
    /\ sent - step < size

\* sent is the greatest multiple of step that is not above size, raised to
\* one step and to min_order
RoundedDownTo(sent, size, step, min_order) ==
    sent = Max(Max((size \div step) * step, step), min_order)

\* the orders the latest call sent for leg n (1: base, 2: quote) of the pair
\* on the given side, the hedge orders of a rollback left out
LegOrders(n, side) ==
    LET sent == Unwrap(Unwrap(trial).result).calls
        symbol == IF n = 1 THEN universe[1].base ELSE universe[1].quote
    IN  {sent[j] : j \in {i \in 1..Len(sent) :
                             /\ sent[i].op = "create_order"
                             /\ sent[i].symbol = symbol
                             /\ sent[i].side = side}}

EntrySide(n) ==
    IF n = 1 THEN entry_sides(Unwrap(trial).direction).a
    ELSE entry_sides(Unwrap(trial).direction).b

\* the snapshot of leg n of the pair
LegSnapshot(n) ==
    Unwrap(Unwrap(trial).prices[IF n = 1 THEN universe[1].base
                                ELSE universe[1].quote])

\* the exit-leg half of C38: the size sent for each exit leg is the
\* requested size rounded up to a multiple of the size step (the requested
\* size itself when the symbol has no positive step)
ExitSizesRoundedUp ==
    trial # {} /\ Unwrap(trial).phase = "closed" =>
        \A n \in 1..2 :
            \A order \in LegOrders(n, OppositeSide(EntrySide(n))) :
                IF CloseSizeStep(LegSnapshot(n)) <= 0
                THEN order.size = Unwrap(trial).qtys[n]
                ELSE RoundedUpTo(order.size, Unwrap(trial).qtys[n],
                                 CloseSizeStep(LegSnapshot(n)))

BarDue(s) ==
    /\ Unwrap(trial).ticks > 0
    /\ Unwrap(trial).price_map[s] # {}
    /\ Unwrap(trial).before[s].start_ts # None
    /\ Unwrap(trial).now_ts - Unwrap(trial).before[s].start_ts
           >= Unwrap(trial).window_secs

\* C39: the bar builder emits exactly on a sample with ts - start_ts >= W,
\* the emitted value is the close of the bar before that sample together
\* with the timestamp start_ts + W, the first sample never emits, and a
\* history sample is appended for a symbol only in a tick in which its
\* builder emitted.
C39_BarEmission ==
    [][\A s \in BarSymbols :
           LET t == Unwrap(trial')
           IN  /\ t.emitted[s] # {} <=> BarDue(s)'
               /\ t.emitted[s] # {} =>
                      t.emitted[s] = {[price |-> t.before[s].close,
                                       ts |-> t.before[s].start_ts + t.window_secs]}
               /\ t.before[s].start_ts = None => t.emitted[s] = {}
               /\ t.before[s] = Unwrap(trial).bar_builders[s]
               /\ t.samples[s] # Unwrap(trial).samples[s] =>
                      /\ t.emitted[s] # {}
                      /\ t.samples[s][Len(t.samples[s])].ts
                             = Unwrap(t.emitted[s]).ts
               /\ t.price_map[s] # {} =>
                      t.bar_builders[s].close = Unwrap(t.price_map[s])]_vars

\* a builder whose bar had two samples emitted at exactly window_secs after
\* start_ts, and the sample was appended to the history of the symbol
C39_EmittedAtWindow ==
    /\ trial # {}
    /\ \E s \in BarSymbols :
           /\ BarDue(s)
           /\ Unwrap(trial).now_ts - Unwrap(trial).before[s].start_ts
                  = Unwrap(trial).window_secs
           /\ Unwrap(trial).before[s].close # Unwrap(trial).before[s].open
           /\ s \in Unwrap(trial).updated
           /\ Len(Unwrap(trial).samples[s]) > 0

(* Backtest run (SpecReplay) *)

ReplayFinished == trial # {} /\ Unwrap(trial).phase = "finished"

\* the cursor, the latest tick and the count of steps of a backtest run
ReplaySafe ==
    LET t == Unwrap(trial)
        N == Len(t.data)
    IN  /\ t.cursor \in 0..(N - 1)
        /\ \A r \in t.ticked :
               /\ r.has_more <=> r.cursor < N - 1
               /\ t.phase # "tick" =>
                      t.cursor = IF r.has_more THEN r.cursor + 1 ELSE r.cursor
        /\ t.phase = "step" => t.steps = t.cursor
        /\ t.phase = "tick" => t.steps = t.cursor + 1
        /\ t.phase = "finished" => t.steps = N /\ t.cursor = N - 1
        /\ t.steps <= N
        /\ t.steps > 0 => t.now_ts # {}

\* C40: in backtest mode run terminates: the replay cursor stays within
\* [0, N - 1] for N recorded entries, tick advances it by one and returns
\* true while it is below N - 1 and returns false without advancing at
\* N - 1, and step is executed exactly N times, also when a step fails.
C40_BacktestRunsNSteps ==
    /\ []ReplaySafe
    /\ <>ReplayFinished

\* a run over four entries has finished after four steps, two of which failed
C40_FinishedDespiteFailures ==
    /\ ReplayFinished
    /\ Len(Unwrap(trial).data) = 4
    /\ Unwrap(trial).steps = 4
    /\ Unwrap(trial).failed = 2
    /\ Unwrap(trial).ticked = {[cursor |-> 3, has_more |-> FALSE]}

====
